---- MODULE Spec2Model ----
(***************************************************************************)
(* The chat round trip of AITeamClient (src/ai_team_client.py):            *)
(* send_message_and_wait creates a thread, polls it on a fixed cadence     *)
(* until a terminal condition or a timeout, and chat() extracts the first  *)
(* textual agent reply from the result.  The remote service is the         *)
(* environment: it owns the thread, appends agent messages and moves the   *)
(* thread's state token while the client sleeps and polls.                 *)
(***************************************************************************)
EXTENDS Integers, Sequences, FiniteSets, TLC

(* ------------------------------ bounds -------------------------------- *)

\* the remote thread holds at most this many messages
MaxMsgs == 3
\* every transport request of one call takes the same 0..MaxReqDur time units
MaxReqDur == 1

(* ------------------------- program constants -------------------------- *)

\* poll_interval: int = 5 (default of send_message_and_wait, used by chat)
DefaultPollInterval == 5
\* msg_count >= 2 in the terminal test
TerminalCount == 2

(* ------------------------------ inputs -------------------------------- *)

AgentIds == {"sre"}
MessageTexts == {"ping"}
Timeouts == {-5, 0, 5, 10, 12, 20}
PollIntervals == {5, 10}

(* --------------------- JSON values of the service --------------------- *)

\* a key that a JSON object does not hold
Absent == "<absent>"
\* messageCount when the key is not in the object
NoCount == -1

\* dict.get(key, default) on a string-valued key
DictGet(v, default) == IF v = Absent THEN default ELSE v
\* dict.get("messageCount", default)
CountGet(n, default) == IF n = NoCount THEN default ELSE n

ServiceStates == {"investigating", "resolved", "done"}

TextPart(t) == [type |-> "text", text |-> t]
ToolCallPart == [type |-> "tool_invocation", text |-> Absent]
ToolResultPart == [type |-> "tool_result", text |-> Absent]

UserMsg(t) == [role |-> "user", parts |-> <<TextPart(t)>>]
PongMsg == [role |-> "agent", parts |-> <<TextPart("pong")>>]
ToolOnlyMsg == [role |-> "agent", parts |-> <<ToolCallPart>>]
MixedMsg == [role |-> "agent",
             parts |-> <<TextPart("a"), ToolResultPart, TextPart(Absent), TextPart("b")>>]
AgentMsgs == {PongMsg, ToolOnlyMsg, MixedMsg}

\* the dict {} that get_thread returns when the envelope holds no "data"
EmptyThread == [state |-> Absent, messageCount |-> NoCount, messages |-> <<>>, seq |-> 0]
NoResult == [thread |-> EmptyThread, messages |-> <<>>, state |-> Absent]
NoReply == "<none>"
\* no creation request was received
NoRequest == [channel |-> Absent, title |-> Absent, clientTempId |-> Absent]

VARIABLES
    pc,            \* position of the caller in chat / send_message_and_wait
    op,            \* "chat" or "send": the entry point that was called
    chat_agent,    \* agent_id argument of chat
    channel_id,    \* destination channel
    message,       \* message text
    timeout,       \* timeout argument
    poll_interval, \* poll_interval argument
    reqDur,        \* environment: the time one transport request takes
    now,           \* time.time()
    start,         \* start = time.time() of send_message_and_wait
    thread,        \* the local thread (response of create_thread)
    thread_data,   \* the local thread_data (last thread snapshot fetched)
    state,         \* the local state
    messages,      \* the local messages
    result,        \* the dict send_message_and_wait returned
    via,           \* the return statement that produced result: "loop", "timeout"
    reply,         \* the string chat returned
    fault,         \* the exception that left the call, "none" if none
    srvExists,     \* remote: the thread was created
    srvState,      \* remote: the thread's state token
    srvMsgs,       \* remote: the thread's messages
    posted,        \* remote: the body and channel of the creation request received
    polls,         \* history: in-loop thread fetches issued
    sawTerminal,   \* history: some fetched snapshot met the terminal condition
    failed,        \* history: a transport request of the call got a failure response
    script,        \* history: polls answered so far as in the ping/pong scenario, -1 if off it
    creates,       \* history: thread-creation requests issued
    fetches,       \* history: thread fetches issued (get_thread)
    listings,      \* history: message-listing requests issued
    sleeps,        \* history: time.sleep calls made
    reqSince       \* history: time spent in requests since the last sleep began

callVars == <<op, chat_agent, channel_id, message, timeout, poll_interval, reqDur>>
srvVars == <<srvExists, srvState, srvMsgs, posted>>
localVars == <<thread, thread_data, state, messages>>
outVars == <<result, via, reply, fault>>
histVars == <<polls, sawTerminal, failed, script, creates, fetches, listings, sleeps, reqSince>>
chatVars == <<pc, callVars, now, start, localVars, outVars, srvVars, histVars>>

\* two concurrent round trips (section 5)
VARIABLES
    tpc,           \* position of each round trip in send_message_and_wait
    frame,         \* the local variables of send_message_and_wait, one frame per slot
    pclock,        \* time.time() as each round trip's thread sees it
    ptimeout,      \* timeout argument of each round trip
    pscript,       \* remote: the answers each destination's thread gives, fetch by fetch
    served,        \* remote: thread fetches answered, per destination
    presult,       \* the dict each round trip returned
    overlap        \* history: both round trips were under way at the same time

pairVars == <<tpc, frame, pclock, ptimeout, pscript, served, presult, overlap>>

\* single operations of a client and the MCP tool handler (section 7)
VARIABLES
    org_id,        \* self.org_id of the client
    jwt,           \* self.jwt of the client
    headers,       \* self.headers of the client
    ctor,          \* history: the arguments the constructor was given
    lastCall,      \* the last client operation: its request, the response status, its outcome
    toolReturn,    \* how the last tool_handler call ended
    ncalls,        \* history: client operations and tool calls made
    usedToken      \* history: some request was sent with an API token in place of the bearer

opsVars == <<org_id, jwt, headers, ctor, lastCall, toolReturn, ncalls, usedToken>>

\* the command line: get_client and the command that uses the client
VARIABLES
    cpc,           \* position of the command: "start", "creds", "login", "client", ...
    creds,         \* the dict get_credentials returned ("" for a credential not found)
    cliClient,     \* the arguments of the AITeamClient get_client returned
    cliRequest,    \* the command's request: its command and the headers it sent
    cliNet,        \* history: network calls made by the process
    cliExit        \* the exit status of the process, "running" before it ends

cliVars == <<cpc, creds, cliClient, cliRequest, cliNet, cliExit>>

\* update_agent and clone_agent, called by two callers on one service
VARIABLES
    apc,           \* position of each caller: "idle", "get", "write", "done", "raised"
    acall,         \* the call each caller made: operation, agent id, new name, keyword arguments
    current,       \* the agent each caller's get_agent returned (current / source)
    sentWrite,     \* the write request each caller sent: method, agent id, JSON payload
    afault,        \* the exception that left each caller's call, "none" if none
    db,            \* remote: the agents by id
    dbIds,         \* remote: the ids of the agents that exist
    seenDone       \* history: the callers whose call had returned when each caller's
                   \* list GET was answered

agentVars == <<apc, acall, current, sentWrite, afault, db, dbIds, seenDone>>

\* the reply extraction applied to a round-trip result
VARIABLES
    xresult,       \* a dict send_message_and_wait returned
    xreplies       \* the strings the extraction gave, application by application

extractVars == <<xresult, xreplies>>

\* EdgeDeltaAuth.login
VARIABLES
    authpc,        \* position of login: "idle", "login", "cookie", "done", "raised"
    auth_jwt,      \* self._jwt, Absent for None
    auth_expires,  \* self._jwt_expires
    aclock,        \* time.time()
    authFault,     \* the exception that left the last login call, "none" if none
    authPrev,      \* history: _jwt and _jwt_expires when the current call began
    authReqs,      \* history: the requests the current call has sent, in order
    authOk,        \* history: the responses the current call got were all successes
    logins         \* history: calls of login made

authVars == <<authpc, auth_jwt, auth_expires, aclock, authFault, authPrev, authReqs,
              authOk, logins>>

\* get_credentials
VARIABLES
    credArgs,      \* the command-line arguments (Absent for None)
    credEnv,       \* os.environ (Absent for a variable that is not set)
    credFile,      \* the keys of the env file (Absent for a key the file lacks)
    resolved       \* the dict get_credentials returned, <<>> before it returns

credVars == <<credArgs, credEnv, credFile, resolved>>

extVars == <<pairVars, opsVars, cliVars, agentVars, extractVars, authVars, credVars>>
notPair == <<chatVars, opsVars, cliVars, agentVars, extractVars, authVars, credVars>>
notOps == <<chatVars, pairVars, cliVars, agentVars, extractVars, authVars, credVars>>
notCli == <<chatVars, pairVars, opsVars, agentVars, extractVars, authVars, credVars>>
notAgents == <<chatVars, pairVars, opsVars, cliVars, extractVars, authVars, credVars>>
notExtract == <<chatVars, pairVars, opsVars, cliVars, agentVars, authVars, credVars>>
notAuth == <<chatVars, pairVars, opsVars, cliVars, agentVars, extractVars, credVars>>
notCreds == <<chatVars, pairVars, opsVars, cliVars, agentVars, extractVars, authVars>>
vars == <<chatVars, extVars>>

(* ------------------------------ the service --------------------------- *)

\* the ways the service may shape the JSON of a thread resource
ThreadShapes == {"full", "noinline", "nostate", "empty"}

\* the "data" object of GET .../threads/{id}?messageLimit=10000, the n-th fetch
ThreadResponse(shape, n) ==
    CASE shape = "full" ->
           [state |-> srvState, messageCount |-> Len(srvMsgs), messages |-> srvMsgs, seq |-> n]
      [] shape = "noinline" ->
           [state |-> srvState, messageCount |-> Len(srvMsgs), messages |-> <<>>, seq |-> n]
      [] shape = "nostate" ->
           [state |-> Absent, messageCount |-> Len(srvMsgs), messages |-> srvMsgs, seq |-> n]
      [] OTHER -> [EmptyThread EXCEPT !.seq = n]

\* the ways the service may shape the "data" object of the creation response
CreateShapes == {"full", "nostate", "noid"}

CreateResponse(shape) ==
    [id |-> IF shape = "noid" THEN Absent ELSE "t1",
     state |-> IF shape = "nostate" THEN Absent ELSE "investigating"]

\* agent processing on the remote thread, seen by the next request: a message is appended
ServiceReply ==
    /\ srvExists
    /\ pc \in {"poll", "list", "final"}
    /\ Len(srvMsgs) < MaxMsgs
    /\ \E m \in AgentMsgs : srvMsgs' = Append(srvMsgs, m)
    /\ UNCHANGED <<pc, callVars, now, start, localVars, outVars, srvExists, srvState,
                   posted, histVars>>
    /\ UNCHANGED extVars

\* agent processing on the remote thread, seen by the next request: the state token moves
ServiceState ==
    /\ srvExists
    /\ pc \in {"poll", "list", "final"}
    /\ \E s \in ServiceStates \ {srvState} : srvState' = s
    /\ UNCHANGED <<pc, callVars, now, start, localVars, outVars, srvExists, srvMsgs,
                   posted, histVars>>
    /\ UNCHANGED extVars

(* ------------------------------ the client ---------------------------- *)

\* history only: the terminal condition as section 4.1 step 2d words it, read off the
\* raw fields of a snapshot (an absent state is no completion token, an absent count
\* is below every threshold)
MetTerminal(td) == td.state = "resolved" \/ td.state = "done" \/ td.messageCount > 1

\* history only: the answer the ping/pong scenario of section 8 gives to poll number k
ScenarioAnswer(k, td) ==
    IF k < 4
      THEN td.state = "investigating" /\ td.messageCount = 1
      ELSE /\ td.state = "done"
           /\ td.messageCount = 2
           /\ td.messages = <<UserMsg("ping"), PongMsg>>

\* history only: script after a poll was answered with td
ScriptStep(td) ==
    IF script = polls /\ polls < 4 /\ ScenarioAnswer(polls + 1, td) THEN script + 1 ELSE -1

(* two round trips: the values they work on *)

\* the two callers and their destinations
Trips == {1, 2}
Dests == {"dm-sre", "dm-security"}
Dest(i) == IF i = 1 THEN "dm-sre" ELSE "dm-security"

\* thread fetches a scripted thread answers; later ones find it still investigating
PairFetches == 3

PairTimeouts == {5, 10}

\* the id the service gives the thread created on destination d, and its inverse
ThreadOf(d) == "thread-" \o d
DestOf(tid) == CHOOSE d \in Dests : ThreadOf(d) = tid

\* the messages of the thread on destination d once the agent has replied
PairMsgs(d) == <<UserMsg("ping"), [role |-> "agent", parts |-> <<TextPart("reply of " \o d)>>]>>

\* the answers a thread fetch can get: still investigating, resolved with the
\* messages inline, resolved with no inline messages
PairKinds == {"wait", "inline", "bare"}

PairAnswer(d, kind) ==
    [id |-> ThreadOf(d),
     state |-> IF kind = "wait" THEN "investigating" ELSE "resolved",
     messageCount |-> IF kind = "wait" THEN 1 ELSE 2,
     messages |-> IF kind = "inline" THEN PairMsgs(d) ELSE <<>>]

\* the answer to fetch number n of the thread on destination d
PairAnswerAt(d, n) == PairAnswer(d, IF n <= PairFetches THEN pscript[d][n] ELSE "wait")

\* the locals of an invocation before its first assignment
NoFrame == [thread_id |-> Absent, start |-> 0,
            thread_data |-> [id |-> Absent, state |-> Absent, messageCount |-> NoCount,
                             messages |-> <<>>],
            state |-> Absent, messages |-> <<>>]
NoPairResult == [thread |-> NoFrame.thread_data, messages |-> <<>>, state |-> Absent]

\* no round trip of the pair called: no frames, no threads
PairIdle ==
    /\ tpc = <<>>
    /\ frame = <<>>
    /\ pclock = <<>>
    /\ ptimeout = <<>>
    /\ pscript = <<>>
    /\ served = <<>>
    /\ presult = <<>>
    /\ overlap = FALSE

(* single operations: the values they work on *)

\* operations calls in a run
MaxCalls == 2

Jwts == {"jwt-a", "jwt-b"}
ApiTokens == {"tok-1"}

\* HTTP status codes of the responses
Statuses == {200, 204, 404, 500}

\* self.headers as the constructor builds it
BearerHeaders(j) ==
    [Authorization |-> "Bearer " \o j, ContentType |-> "application/json",
     XEDAPIToken |-> Absent]

\* the local headers of list_models / list_connectors when api_token is given
TokenHeaders(api_token) ==
    [Authorization |-> Absent, ContentType |-> "application/json",
     XEDAPIToken |-> api_token]

NoCall == [op |-> "none", via |-> "none", sent |-> TokenHeaders(Absent), status |-> 0,
           outcome |-> [kind |-> "none", value |-> "none"]]
NoToolReturn == [kind |-> "none", key |-> "none", value |-> "none", invoked |-> "none",
                 tool_name |-> "none", args |-> {}]

\* no client constructed
OpsIdle ==
    /\ org_id = Absent
    /\ jwt = Absent
    /\ headers = TokenHeaders(Absent)
    /\ ctor = [org_id |-> Absent, jwt |-> Absent]
    /\ lastCall = NoCall
    /\ toolReturn = NoToolReturn
    /\ ncalls = 0
    /\ usedToken = FALSE

(* agents: the values update_agent and clone_agent work on *)

Callers == {1, 2}

\* the keys of an agent's JSON that update_agent and create_agent put in a payload
ApiKeys == {"name", "description", "model", "modelTemperature", "status", "priority",
            "connectors", "capabilities", "masterPrompt", "userPrompt", "role", "avatar"}
NumKeys == {"modelTemperature", "priority"}
ListKeys == {"connectors", "capabilities"}

\* the keyword arguments callers use: snake_case for the prompt and the temperature
KwKeys == {"name", "description", "model", "temperature", "status", "priority",
           "connectors", "capabilities", "system_prompt", "userPrompt", "role", "avatar"}

\* field_map: kwargs use snake_case, the API uses camelCase
FieldMapIdentity(key) == key

FieldMap(key) ==
    CASE key = "system_prompt" -> "masterPrompt"
      [] key = "temperature" -> "modelTemperature"
      [] OTHER -> key

\* a key the JSON object does not hold (dict.get gives the default), by the type of
\* the key's values; temperatures are counted in tenths
Missing(k) ==
    IF k \in NumKeys THEN -1 ELSE IF k \in ListKeys THEN <<Absent>> ELSE Absent

\* a keyword argument the caller did not pass
NotGiven(key) ==
    IF key \in {"temperature", "priority"} THEN -2
    ELSE IF key \in ListKeys THEN <<"<not given>">> ELSE "<not given>"

Given(key, kwargs) == kwargs[key] /= NotGiven(key)

NoAgent == [k \in ApiKeys |-> Missing(k)]
NoKwargs == [key \in KwKeys |-> NotGiven(key)]

\* agents the service may hold: every key set; only name and prompt; empty lists and role
FullAgent ==
    [k \in ApiKeys |->
        CASE k = "name" -> "Recon"
          [] k = "description" -> "d1"
          [] k = "model" -> "gpt-5.2"
          [] k = "modelTemperature" -> 3
          [] k = "status" -> "inactive"
          [] k = "priority" -> 5
          [] k = "connectors" -> <<"github">>
          [] k = "capabilities" -> <<"scan">>
          [] k = "masterPrompt" -> "p1"
          [] k = "userPrompt" -> "u1"
          [] k = "role" -> "r1"
          [] OTHER -> "av1"]
SparseAgent == [NoAgent EXCEPT !["name"] = "Recon", !["masterPrompt"] = "p1"]
BareAgent == [FullAgent EXCEPT !["connectors"] = <<>>, !["capabilities"] = <<>>,
                              !["role"] = ""]
AgentChoices == {FullAgent, SparseAgent, BareAgent}

\* the ids on the service: the agent there from the start and the clone of each caller
NewId(c) == IF c = 1 THEN "new-1" ELSE "new-2"
DbIds == {"a1", "new-1", "new-2"}

\* agent ids a caller passes: one that exists and one that does not
AgentArgs == {"a1", "zz"}

NoAgentCall == [op |-> "none", agent_id |-> Absent, new_name |-> Absent, kwargs |-> NoKwargs]
NoWrite == [method |-> "none", agent_id |-> Absent, payload |-> NoAgent]

\* no caller and no agent service
AgentsIdle ==
    /\ apc = <<>>
    /\ acall = <<>>
    /\ current = <<>>
    /\ sentWrite = <<>>
    /\ afault = <<>>
    /\ db = <<>>
    /\ dbIds = {}
    /\ seenDone = <<>>

(* the command line: the values it works on *)

NoCreds == [org_id |-> "", api_token |-> "", jwt |-> "", email |-> "", password |-> ""]
NoClient == [org_id |-> Absent, jwt |-> Absent]
NoCliRequest == [cmd |-> "none", sent |-> TokenHeaders(Absent)]

\* no command started
CliIdle ==
    /\ cpc = "start"
    /\ creds = NoCreds
    /\ cliClient = NoClient
    /\ cliRequest = NoCliRequest
    /\ cliNet = 0
    /\ cliExit = "running"

\* no result to extract from
ExtractIdle ==
    /\ xresult = <<>>
    /\ xreplies = <<>>

\* EdgeDeltaAuth.__init__: no token, expiry 0
AuthIdle ==
    /\ authpc = "idle"
    /\ auth_jwt = Absent
    /\ auth_expires = 0
    /\ aclock = 0
    /\ authFault = "none"
    /\ authPrev = <<>>
    /\ authReqs = <<>>
    /\ authOk = TRUE
    /\ logins = 0

\* get_credentials not called
CredsIdle ==
    /\ credArgs = <<>>
    /\ credEnv = <<>>
    /\ credFile = <<>>
    /\ resolved = <<>>

ChatIdle ==
    /\ pc = "idle"
    /\ op = "none"
    /\ chat_agent = Absent
    /\ channel_id = Absent
    /\ message = Absent
    /\ timeout = 0
    /\ poll_interval = 0
    /\ reqDur = 0
    /\ now = 0
    /\ start = 0
    /\ thread = CreateResponse("noid")
    /\ thread_data = EmptyThread
    /\ state = Absent
    /\ messages = <<>>
    /\ result = NoResult
    /\ via = "none"
    /\ reply = NoReply
    /\ fault = "none"
    /\ srvExists = FALSE
    /\ srvState = "investigating"
    /\ srvMsgs = <<>>
    /\ posted = NoRequest
    /\ polls = 0
    /\ sawTerminal = FALSE
    /\ failed = FALSE
    /\ script = 0
    /\ creates = 0
    /\ fetches = 0
    /\ listings = 0
    /\ sleeps = 0
    /\ reqSince = 0

Init == ChatIdle /\ PairIdle /\ OpsIdle /\ CliIdle /\ AgentsIdle /\ ExtractIdle /\ AuthIdle /\ CredsIdle

\* variant: chat addresses the channel by the bare agent id
DmChannelBare(agent_id) == agent_id

\* channel_id = f"dm-{agent_id}"
DmChannel(agent_id) == "dm-" \o agent_id

\* chat(agent_id, message, timeout) up to its call of send_message_and_wait
CallChat ==
    /\ pc = "idle"
    /\ \E a \in AgentIds, m \in MessageTexts, t \in Timeouts, d \in 0..MaxReqDur :
         /\ op' = "chat"
         /\ chat_agent' = a
         /\ channel_id' = DmChannel(a)
         /\ message' = m
         /\ timeout' = t
         /\ poll_interval' = DefaultPollInterval
         /\ reqDur' = d
    /\ pc' = "create"
    /\ UNCHANGED <<now, start, localVars, outVars, srvVars, histVars>>
    /\ UNCHANGED extVars

\* send_message_and_wait(channel_id, message, timeout, poll_interval) is entered
CallSendMessageAndWait ==
    /\ pc = "idle"
    /\ \E a \in AgentIds, m \in MessageTexts, t \in Timeouts, p \in PollIntervals,
          d \in 0..MaxReqDur :
         /\ op' = "send"
         /\ chat_agent' = Absent
         /\ channel_id' = DmChannel(a)
         /\ message' = m
         /\ timeout' = t
         /\ poll_interval' = p
         /\ reqDur' = d
    /\ pc' = "create"
    /\ UNCHANGED <<now, start, localVars, outVars, srvVars, histVars>>
    /\ UNCHANGED extVars

\* variant: the exception is caught where it is raised and the wait goes on
RaiseSwallowed(kind) == fault' = fault /\ pc' = "loop"

\* resp.raise_for_status() raises (or a subscript of the response does): nothing in
\* send_message_and_wait or chat catches it, the exception leaves the call
Raise(kind) == fault' = kind /\ pc' = "raised"

\* where control goes when send_message_and_wait returns
AfterReturn == IF op = "chat" THEN "extract" ELSE "done"

\* client_id = f"thread:{secrets.token_urlsafe(16)}": the random part is chosen by
\* the client and read by nothing in it afterwards
Tokens == {"thread:r1"}

\* variant: create_thread posts the message under a key the service does not read
CreateRequestNoTitle(channel, msg, token) ==
    [channel |-> channel, title |-> Absent, clientTempId |-> token]

\* the POST of create_thread: the channel of the URL and the JSON payload
CreateRequest(channel, msg, token) ==
    [channel |-> channel, title |-> msg, clientTempId |-> token]

\* thread = self.create_thread(...); thread_id = thread["id"]; print(thread['state']);
\* start = time.time()
CreateThread ==
    /\ pc = "create"
    /\ creates' = creates + 1
    /\ now' = now + reqDur
    /\ start' = now + reqDur
    /\ \/ \* raise_for_status() raises
          /\ Raise("HTTPError")
          /\ failed' = TRUE
          /\ UNCHANGED <<thread, srvVars>>
       \/ \E shape \in CreateShapes, first \in {<<>>, <<UserMsg(message)>>},
             token \in Tokens :
            /\ srvExists' = TRUE
            /\ posted' = CreateRequest(channel_id, message, token)
            /\ srvState' = "investigating"
            /\ srvMsgs' = first
            /\ thread' = CreateResponse(shape)
            /\ failed' = failed
            /\ IF shape = "full"
                 THEN fault' = fault /\ pc' = "loop"
                 ELSE Raise("KeyError")
    /\ UNCHANGED <<callVars, thread_data, state, messages, result, via, reply,
                   polls, sawTerminal, script, fetches, listings, sleeps, reqSince>>
    /\ UNCHANGED extVars

\* variant: the loop is "while True", left only by the return on a terminal poll
LoopTestForever ==
    /\ pc = "loop"
    /\ pc' = "sleep" /\ reqSince' = 0
    /\ UNCHANGED <<callVars, now, start, localVars, outVars, srvVars,
                   polls, sawTerminal, failed, script, creates, fetches, listings, sleeps>>
    /\ UNCHANGED extVars

\* variant: the loop test with <= in place of <
LoopTestInclusive ==
    /\ pc = "loop"
    /\ IF now - start <= timeout
         THEN pc' = "sleep" /\ reqSince' = 0
         ELSE pc' = "final" /\ reqSince' = reqSince
    /\ UNCHANGED <<callVars, now, start, localVars, outVars, srvVars,
                   polls, sawTerminal, failed, script, creates, fetches, listings, sleeps>>
    /\ UNCHANGED extVars

\* variant: the loop test grants one poll interval beyond the timeout
LoopTestSlack ==
    /\ pc = "loop"
    /\ IF now - start < timeout + poll_interval
         THEN pc' = "sleep" /\ reqSince' = 0
         ELSE pc' = "final" /\ reqSince' = reqSince
    /\ UNCHANGED <<callVars, now, start, localVars, outVars, srvVars,
                   polls, sawTerminal, failed, script, creates, fetches, listings, sleeps>>
    /\ UNCHANGED extVars

\* while time.time() - start < timeout
LoopTest ==
    /\ pc = "loop"
    /\ IF now - start < timeout
         THEN pc' = "sleep" /\ reqSince' = 0
         ELSE pc' = "final" /\ reqSince' = reqSince
    /\ UNCHANGED <<callVars, now, start, localVars, outVars, srvVars,
                   polls, sawTerminal, failed, script, creates, fetches, listings, sleeps>>
    /\ UNCHANGED extVars

\* time.sleep(poll_interval)
Sleep ==
    /\ pc = "sleep"
    /\ now' = now + poll_interval
    /\ sleeps' = sleeps + 1
    /\ pc' = "poll"
    /\ UNCHANGED <<callVars, start, localVars, outVars, srvVars,
                   polls, sawTerminal, failed, script, creates, fetches, listings, reqSince>>
    /\ UNCHANGED extVars

\* variant: the terminal test is met by the initiating message alone
TerminalAnyMessage(st, msg_count) == st \in {"resolved", "done"} \/ msg_count >= 1

\* variant: the terminal test with "and" in place of "or"
TerminalBoth(st, msg_count) == st \in {"resolved", "done"} /\ msg_count >= TerminalCount

\* if state in ("resolved", "done") or msg_count >= 2
Terminal(st, msg_count) == st \in {"resolved", "done"} \/ msg_count >= TerminalCount

\* variant: the listing call is made whatever the thread fetch inlined
NeedsListingAlways(msgs) == TRUE

\* if not messages
NeedsListing(msgs) == msgs = <<>>

\* variant: the in-loop return takes the state from the snapshot without the default
LoopResultRawState(td, st, msgs) == [thread |-> td, messages |-> msgs, state |-> td.state]

\* the result of the return inside the loop
LoopResult(td, st, msgs) == [thread |-> td, messages |-> msgs, state |-> st]

\* the loop body after the sleep: get_thread, the terminal test, the return
Poll ==
    /\ pc = "poll"
    /\ fetches' = fetches + 1
    /\ polls' = polls + 1
    /\ now' = now + reqDur
    /\ reqSince' = reqSince + reqDur
    /\ \/ \* raise_for_status() raises
          /\ Raise("HTTPError")
          /\ failed' = TRUE
          /\ UNCHANGED <<thread_data, state, messages, result, via, sawTerminal, script>>
       \/ \E shape \in ThreadShapes :
            LET td == ThreadResponse(shape, fetches + 1)
                st == DictGet(td.state, "unknown")
                msg_count == CountGet(td.messageCount, 0)
            IN  /\ thread_data' = td
                /\ state' = st
                /\ sawTerminal' = (sawTerminal \/ MetTerminal(td))
                /\ script' = ScriptStep(td)
                /\ failed' = failed
                /\ fault' = fault
                /\ IF Terminal(st, msg_count)
                     THEN /\ messages' = td.messages
                          /\ IF NeedsListing(td.messages)
                               THEN pc' = "list" /\ UNCHANGED <<result, via>>
                               ELSE /\ result' = LoopResult(td, st, td.messages)
                                    /\ via' = "loop"
                                    /\ pc' = AfterReturn
                     ELSE /\ pc' = "loop"
                          /\ UNCHANGED <<messages, result, via>>
    /\ UNCHANGED <<callVars, start, thread, reply, srvVars, creates, listings, sleeps>>
    /\ UNCHANGED extVars

\* messages = self.get_thread_messages(channel_id, thread_id), then the return
ListMessages ==
    /\ pc = "list"
    /\ listings' = listings + 1
    /\ now' = now + reqDur
    /\ reqSince' = reqSince + reqDur
    /\ \/ \* raise_for_status() raises
          /\ Raise("HTTPError")
          /\ failed' = TRUE
          /\ UNCHANGED <<messages, result, via>>
       \/ \E listed \in {srvMsgs, <<>>} :
            /\ messages' = listed
            /\ result' = LoopResult(thread_data, state, listed)
            /\ failed' = failed
            /\ via' = "loop"
            /\ fault' = fault
            /\ pc' = AfterReturn
    /\ UNCHANGED <<callVars, start, thread, thread_data, state, reply, srvVars,
                   polls, sawTerminal, script, creates, fetches, sleeps>>
    /\ UNCHANGED extVars

\* variant: the timeout path overwrites the state with the literal "timeout"
TimeoutResultLiteral(td) ==
    [thread |-> td, messages |-> td.messages, state |-> "timeout"]

\* variant: the timeout path with the default of the in-loop path, "unknown"
TimeoutResultUnknown(td) ==
    [thread |-> td, messages |-> td.messages, state |-> DictGet(td.state, "unknown")]

\* the result of the timeout path, from the final snapshot
TimeoutResult(td) ==
    [thread |-> td, messages |-> td.messages, state |-> DictGet(td.state, "timeout")]

\* variant: the timeout path subscripts thread_data["state"], which raises KeyError on
\* a snapshot without a state
FinalFetchSubscript ==
    /\ pc = "final"
    /\ fetches' = fetches + 1
    /\ now' = now + reqDur
    /\ reqSince' = reqSince + reqDur
    /\ \/ /\ Raise("HTTPError")
          /\ failed' = TRUE
          /\ UNCHANGED <<thread_data, messages, result, via, sawTerminal>>
       \/ \E shape \in ThreadShapes :
            LET td == ThreadResponse(shape, fetches + 1)
            IN  /\ thread_data' = td
                /\ messages' = td.messages
                /\ sawTerminal' = (sawTerminal \/ MetTerminal(td))
                /\ failed' = failed
                /\ IF td.state = Absent
                     THEN Raise("KeyError") /\ UNCHANGED <<result, via>>
                     ELSE /\ result' = TimeoutResult(td)
                          /\ via' = "timeout"
                          /\ fault' = fault
                          /\ pc' = AfterReturn
    /\ UNCHANGED <<callVars, start, thread, state, reply, srvVars,
                   polls, script, creates, listings, sleeps>>
    /\ UNCHANGED extVars

\* Timeout - return what we have
FinalFetch ==
    /\ pc = "final"
    /\ fetches' = fetches + 1
    /\ now' = now + reqDur
    /\ reqSince' = reqSince + reqDur
    /\ \/ \* raise_for_status() raises
          /\ Raise("HTTPError")
          /\ failed' = TRUE
          /\ UNCHANGED <<thread_data, messages, result, via, sawTerminal>>
       \/ \E shape \in ThreadShapes :
            LET td == ThreadResponse(shape, fetches + 1)
            IN  /\ thread_data' = td
                /\ messages' = td.messages
                /\ sawTerminal' = (sawTerminal \/ MetTerminal(td))
                /\ result' = TimeoutResult(td)
                /\ failed' = failed
                /\ via' = "timeout"
                /\ fault' = fault
                /\ pc' = AfterReturn
    /\ UNCHANGED <<callVars, start, thread, state, reply, srvVars,
                   polls, script, creates, listings, sleeps>>
    /\ UNCHANGED extVars

\* "\n".join(text_parts)
RECURSIVE JoinLines(_)
JoinLines(text_parts) ==
    IF text_parts = <<>> THEN ""
    ELSE IF Len(text_parts) = 1 THEN text_parts[1]
    ELSE text_parts[1] \o "\n" \o JoinLines(Tail(text_parts))

\* the inner loop of chat: the texts of the parts whose type is "text"
RECURSIVE TextParts(_)
TextParts(parts) ==
    IF parts = <<>> THEN <<>>
    ELSE LET part == Head(parts)
         IN  IF part.type = "text"
               THEN <<DictGet(part.text, "")>> \o TextParts(Tail(parts))
               ELSE TextParts(Tail(parts))

\* variant: the sentinel reads a key the result does not hold and shows the default
SentinelUnknown(st) == "[No response yet - state: unknown]"

\* f"[No response yet - state: {result.get('state', 'unknown')}]"
Sentinel(st) == "[No response yet - state: " \o DictGet(st, "unknown") \o "]"

\* variant: the outer loop without the test of the role
RECURSIVE ExtractReplyAnyRole(_, _)
ExtractReplyAnyRole(msgs, st) ==
    IF msgs = <<>> THEN Sentinel(st)
    ELSE LET msg == Head(msgs)
         IN  IF TextParts(msg.parts) /= <<>>
               THEN JoinLines(TextParts(msg.parts))
               ELSE ExtractReplyAnyRole(Tail(msgs), st)

\* variant: the outer loop returns at the first agent message, text parts or not
RECURSIVE ExtractReplyFirstAgent(_, _)
ExtractReplyFirstAgent(msgs, st) ==
    IF msgs = <<>> THEN Sentinel(st)
    ELSE LET msg == Head(msgs)
         IN  IF msg.role = "agent"
               THEN JoinLines(TextParts(msg.parts))
               ELSE ExtractReplyFirstAgent(Tail(msgs), st)

\* the outer loop of chat over result["messages"]
RECURSIVE ExtractReply(_, _)
ExtractReply(msgs, st) ==
    IF msgs = <<>> THEN Sentinel(st)
    ELSE LET msg == Head(msgs)
         IN  IF msg.role = "agent" /\ TextParts(msg.parts) /= <<>>
               THEN JoinLines(TextParts(msg.parts))
               ELSE ExtractReply(Tail(msgs), st)

\* chat after send_message_and_wait returned: extract text from agent response
Extract ==
    /\ pc = "extract"
    /\ reply' = ExtractReply(result.messages, result.state)
    /\ pc' = "done"
    /\ UNCHANGED <<callVars, now, start, localVars, result, via, fault, srvVars, histVars>>
    /\ UNCHANGED extVars

Next ==
    \/ CallChat
    \/ CallSendMessageAndWait
    \/ CreateThread
    \/ LoopTest
    \/ Sleep
    \/ Poll
    \/ ListMessages
    \/ FinalFetch
    \/ Extract
    \/ ServiceReply
    \/ ServiceState

Spec == Init /\ [][Next]_vars

\* the steps of the caller's thread inside chat / send_message_and_wait
RoundTripStep ==
    \/ CreateThread
    \/ LoopTest
    \/ Sleep
    \/ Poll
    \/ ListMessages
    \/ FinalFetch
    \/ Extract

\* the round trip when every transport call and every sleep returns: the caller's
\* thread is never stopped for ever between two statements
FairSpec == Spec /\ WF_vars(RoundTripStep)

(* ------------------- two concurrent round trips ----------------------- *)

\* variant: the locals live on the client object, one frame for every invocation
SlotShared(i) == 1

\* the frame holding the locals of invocation i: each call of the function has its own
Slot(i) == i

PairInit ==
    /\ ChatIdle
    /\ OpsIdle
    /\ CliIdle
    /\ CredsIdle
    /\ AuthIdle
    /\ ExtractIdle
    /\ AgentsIdle
    /\ tpc = [i \in Trips |-> "create"]
    /\ frame = [k \in Trips |-> NoFrame]
    /\ pclock = [i \in Trips |-> 0]
    /\ ptimeout \in [Trips -> PairTimeouts]
    /\ pscript \in [Dests -> [1..PairFetches -> PairKinds]]
    /\ served = [d \in Dests |-> 0]
    /\ presult = [i \in Trips |-> NoPairResult]
    /\ overlap = FALSE

\* history only: invocation i has created its thread and not yet returned
UnderWay(p) == p \in {"loop", "sleep", "poll", "list", "final"}

\* the step of invocation i to position p, with the history of overlap
PairGoto(i, p) ==
    /\ tpc' = [tpc EXCEPT ![i] = p]
    /\ overlap' = (overlap \/ (UnderWay(p) /\ \A j \in Trips \ {i} : UnderWay(tpc[j])))

\* thread = self.create_thread(channel_id, message); thread_id; start = time.time()
PairCreate(i) ==
    /\ tpc[i] = "create"
    /\ frame' = [frame EXCEPT ![Slot(i)].thread_id = ThreadOf(Dest(i)),
                              ![Slot(i)].start = pclock[i]]
    /\ PairGoto(i, "loop")
    /\ UNCHANGED <<pclock, ptimeout, pscript, served, presult, notPair>>

\* while time.time() - start < timeout
PairLoopTest(i) ==
    /\ tpc[i] = "loop"
    /\ PairGoto(i, IF pclock[i] - frame[Slot(i)].start < ptimeout[i] THEN "sleep" ELSE "final")
    /\ UNCHANGED <<frame, pclock, ptimeout, pscript, served, presult, notPair>>

\* time.sleep(poll_interval)
PairSleep(i) ==
    /\ tpc[i] = "sleep"
    /\ pclock' = [pclock EXCEPT ![i] = @ + DefaultPollInterval]
    /\ PairGoto(i, "poll")
    /\ UNCHANGED <<frame, ptimeout, pscript, served, presult, notPair>>

\* the loop body after the sleep: get_thread, the terminal test, the return
PairPoll(i) ==
    /\ tpc[i] = "poll"
    /\ LET d == DestOf(frame[Slot(i)].thread_id)
           td == PairAnswerAt(d, served[d] + 1)
           st == DictGet(td.state, "unknown")
           msg_count == CountGet(td.messageCount, 0)
       IN  /\ served' = [served EXCEPT ![d] = @ + 1]
           /\ IF Terminal(st, msg_count)
                THEN /\ frame' = [frame EXCEPT ![Slot(i)].thread_data = td,
                                               ![Slot(i)].state = st,
                                               ![Slot(i)].messages = td.messages]
                     /\ IF NeedsListing(td.messages)
                          THEN PairGoto(i, "list") /\ UNCHANGED presult
                          ELSE /\ presult' = [presult EXCEPT ![i] = LoopResult(td, st, td.messages)]
                               /\ PairGoto(i, "done")
                ELSE /\ frame' = [frame EXCEPT ![Slot(i)].thread_data = td,
                                               ![Slot(i)].state = st]
                     /\ PairGoto(i, "loop")
                     /\ UNCHANGED presult
    /\ UNCHANGED <<pclock, ptimeout, pscript, notPair>>

\* messages = self.get_thread_messages(channel_id, thread_id), then the return
PairList(i) ==
    /\ tpc[i] = "list"
    /\ LET f == frame[Slot(i)]
           listed == PairMsgs(DestOf(f.thread_id))
       IN  /\ frame' = [frame EXCEPT ![Slot(i)].messages = listed]
           /\ presult' = [presult EXCEPT ![i] = LoopResult(f.thread_data, f.state, listed)]
    /\ PairGoto(i, "done")
    /\ UNCHANGED <<pclock, ptimeout, pscript, served, notPair>>

\* Timeout - return what we have
PairFinal(i) ==
    /\ tpc[i] = "final"
    /\ LET d == DestOf(frame[Slot(i)].thread_id)
           td == PairAnswerAt(d, served[d] + 1)
       IN  /\ served' = [served EXCEPT ![d] = @ + 1]
           /\ frame' = [frame EXCEPT ![Slot(i)].thread_data = td,
                                      ![Slot(i)].messages = td.messages]
           /\ presult' = [presult EXCEPT ![i] = TimeoutResult(td)]
    /\ PairGoto(i, "done")
    /\ UNCHANGED <<pclock, ptimeout, pscript, notPair>>

PairNext ==
    \E i \in Trips :
        \/ PairCreate(i)
        \/ PairLoopTest(i)
        \/ PairSleep(i)
        \/ PairPoll(i)
        \/ PairList(i)
        \/ PairFinal(i)

SpecPair == PairInit /\ [][PairNext]_vars

(* ---------------- single operations and the tool handler -------------- *)

\* operations that send one request with self.headers and call resp.raise_for_status()
CheckedOps == {"list_agents", "create_agent", "list_channels", "get_channel",
               "create_thread", "get_thread", "get_thread_messages", "list_threads",
               "get_activity", "get_badge_count", "list_integrations",
               "create_integration"}

\* list_models, list_connectors: checked too, with headers of their own when an
\* api_token is passed
TokenOps == {"list_models", "list_connectors"}

\* delete_agent, delete_integration: return resp.status_code in (200, 204)
DeleteOps == {"delete_agent", "delete_integration"}

\* mark_thread_read: the response is dropped
DroppedOps == {"mark_thread_read"}

ClientOps == CheckedOps \cup TokenOps \cup DeleteOps \cup DroppedOps

\* resp.raise_for_status(): HTTPError for a 4xx or 5xx response
RaisesForStatus(status) == status >= 400

\* how operation name ends on a response of the given status
OpOutcome(name, status) ==
    IF name \in CheckedOps \cup TokenOps
      THEN IF RaisesForStatus(status)
             THEN [kind |-> "raised", value |-> "HTTPError"]
             ELSE [kind |-> "returned", value |-> "data"]
      ELSE IF name \in DeleteOps
             THEN [kind |-> "returned",
                   value |-> IF status \in {200, 204} THEN "True" ELSE "False"]
             ELSE [kind |-> "returned", value |-> "None"]

\* variant: list_models stores the headers it builds on the client
RebindHeaders(h, api_token) == IF api_token /= Absent THEN TokenHeaders(api_token) ELSE h

\* self.headers after list_models / list_connectors: headers is a local there
KeepHeaders(h, api_token) == h

\* the headers list_models / list_connectors send
RequestHeaders(h, api_token) == IF api_token /= Absent THEN TokenHeaders(api_token) ELSE h

\* the handlers of tool_handler that are one client operation with one request
HandlerOp ==
    [t \in {"ai_team_list_agents", "ai_team_create_agent", "ai_team_delete_agent",
            "ai_team_create_thread", "ai_team_get_thread", "ai_team_get_thread_messages",
            "ai_team_list_threads", "ai_team_list_channels", "ai_team_get_channel",
            "ai_team_get_activity", "ai_team_get_badge_count", "ai_team_list_models",
            "ai_team_list_connectors"} |->
        CASE t = "ai_team_list_agents" -> "list_agents"
          [] t = "ai_team_create_agent" -> "create_agent"
          [] t = "ai_team_delete_agent" -> "delete_agent"
          [] t = "ai_team_create_thread" -> "create_thread"
          [] t = "ai_team_get_thread" -> "get_thread"
          [] t = "ai_team_get_thread_messages" -> "get_thread_messages"
          [] t = "ai_team_list_threads" -> "list_threads"
          [] t = "ai_team_list_channels" -> "list_channels"
          [] t = "ai_team_get_channel" -> "get_channel"
          [] t = "ai_team_get_activity" -> "get_activity"
          [] t = "ai_team_get_badge_count" -> "get_badge_count"
          [] t = "ai_team_list_models" -> "list_models"
          [] OTHER -> "list_connectors"]

\* the handlers of tool_handler whose client operation is built on other operations
ComposedHandlerOp ==
    [t \in {"ai_team_get_agent", "ai_team_update_agent", "ai_team_chat",
            "ai_team_get_agent_tools", "ai_team_clone_agent", "ai_team_search_threads"} |->
        CASE t = "ai_team_get_agent" -> "get_agent"
          [] t = "ai_team_update_agent" -> "update_agent"
          [] t = "ai_team_chat" -> "chat"
          [] t = "ai_team_get_agent_tools" -> "get_agent_tools"
          [] t = "ai_team_clone_agent" -> "clone_agent"
          [] OTHER -> "search_threads"]

\* the keys of the handlers dict
HandlerNames == DOMAIN HandlerOp \cup DOMAIN ComposedHandlerOp

\* handlers.get(tool_name) for a name the dict holds
ClientOpOf(t) == IF t \in DOMAIN HandlerOp THEN HandlerOp[t] ELSE ComposedHandlerOp[t]

\* the "name" entries of AI_TEAM_TOOLS
DeclaredTools ==
    {"ai_team_list_agents", "ai_team_get_agent", "ai_team_create_agent",
     "ai_team_update_agent", "ai_team_delete_agent", "ai_team_chat",
     "ai_team_create_thread", "ai_team_get_thread", "ai_team_get_thread_messages",
     "ai_team_list_threads", "ai_team_list_channels", "ai_team_get_channel",
     "ai_team_get_activity", "ai_team_get_badge_count", "ai_team_list_models",
     "ai_team_list_connectors", "ai_team_get_agent_tools", "ai_team_clone_agent",
     "ai_team_search_threads"}

\* the "required" entry of a tool's inputSchema in AI_TEAM_TOOLS
Required(t) ==
    CASE t \in {"ai_team_get_agent", "ai_team_update_agent", "ai_team_delete_agent",
                "ai_team_get_agent_tools"} -> {"agent_id"}
      [] t = "ai_team_create_agent" -> {"name", "description", "system_prompt"}
      [] t = "ai_team_chat" -> {"agent_id", "message"}
      [] t = "ai_team_create_thread" -> {"channel_id", "message"}
      [] t \in {"ai_team_get_thread", "ai_team_get_thread_messages"} ->
           {"channel_id", "thread_id"}
      [] t \in {"ai_team_list_threads", "ai_team_get_channel"} -> {"channel_id"}
      [] t = "ai_team_clone_agent" -> {"agent_id", "new_name"}
      [] OTHER -> {}

\* variant: every argument is read with args.get
SubscriptedNone(t) == {}

\* the keys a handler's lambda reads with args[key]
Subscripted(t) ==
    CASE t \in {"ai_team_get_agent", "ai_team_update_agent", "ai_team_delete_agent",
                "ai_team_get_agent_tools"} -> {"agent_id"}
      [] t = "ai_team_create_agent" -> {"name", "description", "system_prompt"}
      [] t \in {"ai_team_chat"} -> {"agent_id", "message"}
      [] t \in {"ai_team_clone_agent"} -> {"agent_id", "new_name"}
      [] t = "ai_team_create_thread" -> {"channel_id", "message"}
      [] t \in {"ai_team_get_thread", "ai_team_get_thread_messages"} ->
           {"channel_id", "thread_id"}
      [] t \in {"ai_team_list_threads", "ai_team_get_channel"} -> {"channel_id"}
      [] OTHER -> {}

\* tool names a caller may pass: the declared ones and one that is not declared
ToolNames == DeclaredTools \cup {"ai_team_bogus"}

\* the args dicts a caller may pass, by the keys they hold: any part of the
\* required keys; one key or none for the name that is not declared
ArgsTried(t) == IF t \in DeclaredTools THEN SUBSET Required(t) ELSE {{}, {"agent_id"}}

\* how a composed operation ends: the status of the first request that failed, else
\* of its last one; found is whether the agent id was listed (for chat: whether the
\* responses held the keys that are subscripted)
ComposedOutcome(name, status, found) ==
    IF RaisesForStatus(status) THEN [kind |-> "raised", value |-> "HTTPError"]
    ELSE IF name = "search_threads" \/ found THEN [kind |-> "returned", value |-> "data"]
    ELSE [kind |-> "raised", value |-> IF name = "chat" THEN "KeyError" ELSE "ValueError"]

\* AITeamClient(org_id, jwt)
OpsInit ==
    /\ ChatIdle
    /\ PairIdle
    /\ CliIdle
    /\ CredsIdle
    /\ AuthIdle
    /\ ExtractIdle
    /\ AgentsIdle
    /\ org_id = "org-1"
    /\ jwt \in Jwts
    /\ headers = BearerHeaders(jwt)
    /\ ctor = [org_id |-> org_id, jwt |-> jwt]
    /\ lastCall = NoCall
    /\ toolReturn = NoToolReturn
    /\ ncalls = 0
    /\ usedToken = FALSE

\* a direct call of an operation that sends self.headers
CallOperation ==
    /\ ncalls < MaxCalls
    /\ \E name \in ClientOps \ TokenOps, status \in Statuses :
         lastCall' = [op |-> name, via |-> "direct", sent |-> headers, status |-> status,
                      outcome |-> OpOutcome(name, status)]
    /\ toolReturn' = NoToolReturn
    /\ ncalls' = ncalls + 1
    /\ UNCHANGED <<org_id, jwt, headers, ctor, usedToken, notOps>>

\* a direct call of list_models(api_token) / list_connectors(api_token)
CallTokenOperation ==
    /\ ncalls < MaxCalls
    /\ \E name \in TokenOps, api_token \in ApiTokens \cup {Absent}, status \in Statuses :
         /\ lastCall' = [op |-> name, via |-> "direct",
                         sent |-> RequestHeaders(headers, api_token), status |-> status,
                         outcome |-> OpOutcome(name, status)]
         /\ headers' = KeepHeaders(headers, api_token)
         /\ usedToken' = (usedToken \/ api_token /= Absent)
    /\ toolReturn' = NoToolReturn
    /\ ncalls' = ncalls + 1
    /\ UNCHANGED <<org_id, jwt, ctor, notOps>>

\* tool_handler(tool_name, args, client)
CallToolHandler ==
    /\ ncalls < MaxCalls
    /\ ncalls' = ncalls + 1
    /\ \E tool_name \in ToolNames, status \in Statuses, found \in BOOLEAN :
       \E args \in ArgsTried(tool_name) :
         IF tool_name \notin HandlerNames
           THEN /\ toolReturn' = [kind |-> "returned", key |-> "error",
                                  value |-> "Unknown tool: " \o tool_name,
                                  invoked |-> "none", tool_name |-> tool_name,
                                  args |-> args]
                /\ UNCHANGED lastCall
           ELSE IF ~(Subscripted(tool_name) \subseteq args)
           THEN \* args[key] raises KeyError before the client is called
                /\ toolReturn' = [kind |-> "returned", key |-> "error",
                                  value |-> "KeyError", invoked |-> "none",
                                  tool_name |-> tool_name, args |-> args]
                /\ UNCHANGED lastCall
           ELSE LET client_op == ClientOpOf(tool_name)
                    out == IF tool_name \in DOMAIN HandlerOp
                             THEN OpOutcome(client_op, status)
                             ELSE ComposedOutcome(client_op, status, found)
                IN  /\ lastCall' = [op |-> client_op, via |-> "tool",
                                    sent |-> headers, status |-> status, outcome |-> out]
                    /\ toolReturn' =
                         IF out.kind = "raised"
                           THEN [kind |-> "returned", key |-> "error", value |-> out.value,
                                 invoked |-> client_op, tool_name |-> tool_name, args |-> args]
                           ELSE [kind |-> "returned", key |-> "result", value |-> out.value,
                                 invoked |-> client_op, tool_name |-> tool_name, args |-> args]
    /\ UNCHANGED <<org_id, jwt, headers, ctor, usedToken, notOps>>

OpsNext ==
    \/ CallOperation
    \/ CallTokenOperation
    \/ CallToolHandler

SpecOps == OpsInit /\ [][OpsNext]_vars

(* --------------------------- the command line -------------------------- *)

\* what get_credentials can return: each credential found or not ("")
CredSets ==
    [org_id : {"", "org-1"}, api_token : {"", "tok-1"}, jwt : {"", "jwt-a"},
     email : {"", "me@example.com"}, password : {"", "secret"}]

\* commands that call an operation sending self.headers (cmd_agents, cmd_channels,
\* cmd_integrations)
BearerCommands == {"agents", "channels", "integrations"}

\* commands that pass the API token to the operation (cmd_models, cmd_connectors)
TokenCommands == {"models", "connectors"}

CliInit ==
    /\ ChatIdle
    /\ PairIdle
    /\ OpsIdle
    /\ CliIdle
    /\ CredsIdle
    /\ AuthIdle
    /\ ExtractIdle
    /\ AgentsIdle

\* creds = get_credentials(args)
CliGetCredentials ==
    /\ cpc = "start"
    /\ creds' \in CredSets
    /\ cpc' = "creds"
    /\ UNCHANGED <<cliClient, cliRequest, cliNet, cliExit, notCli>>

\* get_client after get_credentials: exit, log in, or construct the client
CliGetClient ==
    /\ cpc = "creds"
    /\ IF creds.org_id = ""
         THEN cpc' = "exited" /\ cliExit' = "exit 1" /\ UNCHANGED cliClient
         ELSE IF creds.jwt /= ""
           THEN /\ cliClient' = [org_id |-> creds.org_id, jwt |-> creds.jwt]
                /\ cpc' = "client"
                /\ UNCHANGED cliExit
           ELSE IF creds.email /= "" /\ creds.password /= ""
             THEN cpc' = "login" /\ UNCHANGED <<cliClient, cliExit>>
             ELSE IF creds.api_token /= ""
               THEN \* the warning branch: jwt = ""
                    /\ cliClient' = [org_id |-> creds.org_id, jwt |-> ""]
                    /\ cpc' = "client"
                    /\ UNCHANGED cliExit
               ELSE cpc' = "exited" /\ cliExit' = "exit 1" /\ UNCHANGED cliClient
    /\ UNCHANGED <<creds, cliRequest, cliNet, notCli>>

\* jwt = auth.login(email, password), then AITeamClient(org_id, jwt)
CliLogin ==
    /\ cpc = "login"
    /\ cliNet' = cliNet + 1
    /\ \/ /\ cliClient' = [org_id |-> creds.org_id, jwt |-> "jwt-login"]
          /\ cpc' = "client"
          /\ UNCHANGED cliExit
       \/ \* login raises: the traceback ends the process
          /\ cpc' = "exited"
          /\ cliExit' = "exit 1"
          /\ UNCHANGED cliClient
    /\ UNCHANGED <<creds, cliRequest, notCli>>

\* the command's operation on the client get_client returned
CliCommand ==
    /\ cpc = "client"
    /\ \E cmd \in BearerCommands :
         cliRequest' = [cmd |-> cmd, sent |-> BearerHeaders(cliClient.jwt)]
    /\ cliNet' = cliNet + 1
    /\ cpc' = "sent"
    /\ UNCHANGED <<creds, cliClient, cliExit, notCli>>

\* cmd_models / cmd_connectors: exit without an API token, else the request with it
CliTokenCommand ==
    /\ cpc = "client"
    /\ \E cmd \in TokenCommands :
         IF creds.api_token = ""
           THEN /\ cpc' = "exited"
                /\ cliExit' = "exit 1"
                /\ UNCHANGED <<cliRequest, cliNet>>
           ELSE /\ cliRequest' = [cmd |-> cmd, sent |-> TokenHeaders(creds.api_token)]
                /\ cliNet' = cliNet + 1
                /\ cpc' = "sent"
                /\ UNCHANGED cliExit
    /\ UNCHANGED <<creds, cliClient, notCli>>

CliNext ==
    \/ CliGetCredentials
    \/ CliGetClient
    \/ CliLogin
    \/ CliCommand
    \/ CliTokenCommand

SpecCli == CliInit /\ [][CliNext]_vars

(* ----------------------- update_agent, clone_agent -------------------- *)

\* keyword arguments of the update_agent calls
UpdateKwargs ==
    {NoKwargs,
     [NoKwargs EXCEPT !["description"] = "d2"],
     [NoKwargs EXCEPT !["system_prompt"] = "p2"],
     [NoKwargs EXCEPT !["temperature"] = 7],
     [NoKwargs EXCEPT !["status"] = "active", !["priority"] = 1],
     [NoKwargs EXCEPT !["connectors"] = <<>>],
     [NoKwargs EXCEPT !["role"] = "lead"]}

\* overrides of the clone_agent calls
CloneOverrides ==
    {NoKwargs,
     [NoKwargs EXCEPT !["description"] = "d2", !["system_prompt"] = "p2"],
     [NoKwargs EXCEPT !["connectors"] = <<"slack">>, !["temperature"] = 7],
     [NoKwargs EXCEPT !["model"] = "claude-opus-4.5", !["priority"] = 1]}

\* Python truth of a value of key k: a missing key, "", [] and 0 are false
Truthy(k, v) ==
    /\ v /= Missing(k)
    /\ IF k \in NumKeys THEN v /= 0 ELSE IF k \in ListKeys THEN v /= <<>> ELSE v /= ""

\* the defaults of current.get(key, default) in update_agent
UpdateDefault(k) ==
    CASE k = "modelTemperature" -> 1
      [] k = "status" -> "active"
      [] k = "priority" -> 10
      [] k \in ListKeys -> <<>>
      [] OTHER -> ""

\* update_agent: the payload before the keyword arguments are applied
BasePayload(cur) ==
    [k \in ApiKeys |->
        IF k \in {"role", "avatar"}
          THEN IF Truthy(k, cur[k]) THEN cur[k] ELSE Missing(k)
          ELSE IF cur[k] = Missing(k) THEN UpdateDefault(k) ELSE cur[k]]

\* variant: the PUT carries only the fields the caller named
UpdatePayloadPartial(cur, kwargs) ==
    [k \in ApiKeys |->
        IF \E key \in KwKeys : FieldMap(key) = k /\ Given(key, kwargs)
          THEN kwargs[CHOOSE key \in KwKeys : FieldMap(key) = k /\ Given(key, kwargs)]
          ELSE Missing(k)]

\* update_agent: the payload of the PUT
UpdatePayload(cur, kwargs) ==
    [k \in ApiKeys |->
        IF \E key \in KwKeys : FieldMap(key) = k /\ Given(key, kwargs)
          THEN kwargs[CHOOSE key \in KwKeys : FieldMap(key) = k /\ Given(key, kwargs)]
          ELSE BasePayload(cur)[k]]

\* the defaults of source.get(key, default) in clone_agent (none for connectors)
CloneDefault(key) ==
    CASE key = "model" -> "claude-opus-4-5-20250414"
      [] key = "temperature" -> 1
      [] key = "priority" -> 10
      [] key = "capabilities" -> <<>>
      [] key = "connectors" -> Missing("connectors")
      [] OTHER -> ""

\* clone_agent: overrides.get(key, source.get(api_key, default))
CloneArg(key, api_key, source, overrides) ==
    IF Given(key, overrides) THEN overrides[key]
    ELSE IF source[api_key] = Missing(api_key) THEN CloneDefault(key)
    ELSE source[api_key]

\* create_agent: the payload of the POST for the arguments clone_agent passes
\* (avatar is left at its default "")
CreatePayload(new_name, source, overrides) ==
    [k \in ApiKeys |->
        CASE k = "name" -> new_name
          [] k = "description" -> CloneArg("description", "description", source, overrides)
          [] k = "masterPrompt" -> CloneArg("system_prompt", "masterPrompt", source, overrides)
          [] k = "model" -> CloneArg("model", "model", source, overrides)
          [] k = "modelTemperature" -> CloneArg("temperature", "modelTemperature", source, overrides)
          [] k = "status" -> "active"
          [] k = "priority" -> CloneArg("priority", "priority", source, overrides)
          [] k = "capabilities" ->
               IF Truthy(k, CloneArg("capabilities", "capabilities", source, overrides))
                 THEN CloneArg("capabilities", "capabilities", source, overrides) ELSE <<>>
          [] k = "connectors" ->
               IF Truthy(k, CloneArg("connectors", "connectors", source, overrides))
                 THEN CloneArg("connectors", "connectors", source, overrides)
                 ELSE <<"edgedelta-mcp", "edgedelta-documentation">>
          [] k = "userPrompt" -> "{{{ question }}}"
          [] k = "role" ->
               IF Truthy(k, CloneArg("role", "role", source, overrides))
                 THEN CloneArg("role", "role", source, overrides) ELSE Missing(k)
          [] OTHER -> Missing(k)]

\* remote: the agent after a PUT of the payload
ApplyPut(agent, payload) ==
    [k \in ApiKeys |-> IF payload[k] = Missing(k) THEN agent[k] ELSE payload[k]]

AgentsInit ==
    /\ ChatIdle
    /\ PairIdle
    /\ OpsIdle
    /\ CliIdle
    /\ CredsIdle
    /\ AuthIdle
    /\ ExtractIdle
    /\ apc = [c \in Callers |-> "idle"]
    /\ acall = [c \in Callers |-> NoAgentCall]
    /\ current = [c \in Callers |-> NoAgent]
    /\ sentWrite = [c \in Callers |-> NoWrite]
    /\ afault = [c \in Callers |-> "none"]
    /\ \E a \in AgentChoices : db = [i \in DbIds |-> IF i = "a1" THEN a ELSE NoAgent]
    /\ dbIds = {"a1"}
    /\ seenDone = [c \in Callers |-> {}]

\* update_agent(agent_id, **kwargs) is called
CallUpdateAgent(c) ==
    /\ apc[c] = "idle"
    /\ \E id \in AgentArgs, kw \in UpdateKwargs :
         acall' = [acall EXCEPT ![c] = [op |-> "update", agent_id |-> id,
                                        new_name |-> Absent, kwargs |-> kw]]
    /\ apc' = [apc EXCEPT ![c] = "get"]
    /\ UNCHANGED <<current, sentWrite, afault, db, dbIds, seenDone, notAgents>>

\* clone_agent(agent_id, new_name, **overrides) is called
CallCloneAgent(c) ==
    /\ apc[c] = "idle"
    /\ \E id \in AgentArgs, ov \in CloneOverrides :
         acall' = [acall EXCEPT ![c] = [op |-> "clone", agent_id |-> id,
                                        new_name |-> "Recon 2", kwargs |-> ov]]
    /\ apc' = [apc EXCEPT ![c] = "get"]
    /\ UNCHANGED <<current, sentWrite, afault, db, dbIds, seenDone, notAgents>>

\* get_agent_tools(agent_id) is called
CallGetAgentTools(c) ==
    /\ apc[c] = "idle"
    /\ \E id \in AgentArgs :
         acall' = [acall EXCEPT ![c] = [op |-> "tools", agent_id |-> id,
                                        new_name |-> Absent, kwargs |-> NoKwargs]]
    /\ apc' = [apc EXCEPT ![c] = "get"]
    /\ UNCHANGED <<current, sentWrite, afault, db, dbIds, seenDone, notAgents>>

\* variant: an id that is not listed gives an empty agent instead of ValueError
GetAgentOrEmpty(c) ==
    /\ apc[c] = "get"
    /\ \/ /\ afault' = [afault EXCEPT ![c] = "HTTPError"]
          /\ apc' = [apc EXCEPT ![c] = "raised"]
          /\ UNCHANGED <<current, seenDone>>
       \/ /\ current' = [current EXCEPT ![c] =
                           IF acall[c].agent_id \in dbIds THEN db[acall[c].agent_id]
                           ELSE NoAgent]
          /\ seenDone' = [seenDone EXCEPT ![c] = {d \in Callers : apc[d] = "done"}]
          /\ apc' = [apc EXCEPT ![c] = "write"]
          /\ UNCHANGED afault
    /\ UNCHANGED <<acall, sentWrite, db, dbIds, notAgents>>

\* get_agent(agent_id): the list GET, then the search for the id
GetAgent(c) ==
    /\ apc[c] = "get"
    /\ \/ \* raise_for_status() raises
          /\ afault' = [afault EXCEPT ![c] = "HTTPError"]
          /\ apc' = [apc EXCEPT ![c] = "raised"]
          /\ UNCHANGED <<current, seenDone>>
       \/ IF acall[c].agent_id \in dbIds
            THEN /\ current' = [current EXCEPT ![c] = db[acall[c].agent_id]]
                 /\ seenDone' = [seenDone EXCEPT ![c] = {d \in Callers : apc[d] = "done"}]
                 /\ apc' = [apc EXCEPT ![c] = "write"]
                 /\ UNCHANGED afault
            ELSE /\ afault' = [afault EXCEPT ![c] = "ValueError"]
                 /\ apc' = [apc EXCEPT ![c] = "raised"]
                 /\ UNCHANGED <<current, seenDone>>
    /\ UNCHANGED <<acall, sentWrite, db, dbIds, notAgents>>

\* get_agent_tools after get_agent: the tool list is read from the agent and
\* returned, no further request is sent
ReturnAgentTools(c) ==
    /\ apc[c] = "write"
    /\ acall[c].op = "tools"
    /\ apc' = [apc EXCEPT ![c] = "done"]
    /\ UNCHANGED <<acall, current, sentWrite, afault, db, dbIds, seenDone, notAgents>>

\* update_agent after get_agent: the payload, the PUT, raise_for_status
PutAgent(c) ==
    /\ apc[c] = "write"
    /\ acall[c].op = "update"
    /\ sentWrite' = [sentWrite EXCEPT ![c] =
                       [method |-> "PUT", agent_id |-> acall[c].agent_id,
                        payload |-> UpdatePayload(current[c], acall[c].kwargs)]]
    /\ \/ /\ acall[c].agent_id \in dbIds
          /\ db' = [db EXCEPT ![acall[c].agent_id] =
                       ApplyPut(@, UpdatePayload(current[c], acall[c].kwargs))]
          /\ apc' = [apc EXCEPT ![c] = "done"]
          /\ UNCHANGED afault
       \/ /\ afault' = [afault EXCEPT ![c] = "HTTPError"]
          /\ apc' = [apc EXCEPT ![c] = "raised"]
          /\ UNCHANGED db
    /\ UNCHANGED <<acall, current, dbIds, seenDone, notAgents>>

\* clone_agent after get_agent: create_agent with the source's values, the POST
PostAgent(c) ==
    /\ apc[c] = "write"
    /\ acall[c].op = "clone"
    /\ sentWrite' = [sentWrite EXCEPT ![c] =
                       [method |-> "POST", agent_id |-> Absent,
                        payload |-> CreatePayload(acall[c].new_name, current[c],
                                                  acall[c].kwargs)]]
    /\ \/ /\ db' = [db EXCEPT ![NewId(c)] =
                       CreatePayload(acall[c].new_name, current[c], acall[c].kwargs)]
          /\ dbIds' = dbIds \cup {NewId(c)}
          /\ apc' = [apc EXCEPT ![c] = "done"]
          /\ UNCHANGED afault
       \/ /\ afault' = [afault EXCEPT ![c] = "HTTPError"]
          /\ apc' = [apc EXCEPT ![c] = "raised"]
          /\ UNCHANGED <<db, dbIds>>
    /\ UNCHANGED <<acall, current, seenDone, notAgents>>

AgentsNext ==
    \E c \in Callers :
        \/ CallUpdateAgent(c)
        \/ CallCloneAgent(c)
        \/ CallGetAgentTools(c)
        \/ GetAgent(c)
        \/ PutAgent(c)
        \/ PostAgent(c)
        \/ ReturnAgentTools(c)

SpecAgents == AgentsInit /\ [][AgentsNext]_vars

(* ------------------------- the reply extraction ----------------------- *)

\* message lists of at most n messages
RECURSIVE MsgLists(_)
MsgLists(n) ==
    IF n = 0 THEN {<<>>}
    ELSE MsgLists(n - 1) \cup
         {Append(l, m) : l \in {k \in MsgLists(n - 1) : Len(k) = n - 1},
                         m \in AgentMsgs \cup {UserMsg("ping")}}

\* the results send_message_and_wait can return, as far as the extraction reads them
ExtractResults ==
    [thread : {EmptyThread},
     messages : MsgLists(MaxMsgs),
     state : ServiceStates \cup {"unknown", "timeout"}]

\* variant: the outer loop consumes the list it walks (result["messages"].pop(0))
ResultConsumed(r) == [r EXCEPT !.messages = IF @ = <<>> THEN @ ELSE Tail(@)]

\* the result after the extraction: the loops of chat read it and assign nothing to it
ResultAfterExtract(r) == r

ExtractInit ==
    /\ ChatIdle
    /\ PairIdle
    /\ OpsIdle
    /\ CliIdle
    /\ CredsIdle
    /\ AuthIdle
    /\ AgentsIdle
    /\ xresult \in ExtractResults
    /\ xreplies = <<>>

\* lines 528-538 of chat run on the result, a first and a second time
ApplyExtract ==
    /\ Len(xreplies) < 2
    /\ xreplies' = Append(xreplies, ExtractReply(xresult.messages, xresult.state))
    /\ xresult' = ResultAfterExtract(xresult)
    /\ UNCHANGED notExtract

ExtractNext == ApplyExtract

SpecExtract == ExtractInit /\ [][ExtractNext]_vars

(* ------------------------- EdgeDeltaAuth.login ------------------------ *)

\* calls of login in a run
MaxLogins == 2

\* the validity window added to time.time(), in seconds
JwtWindow == 35000

\* the time a request takes
AuthReqTimes == {0, 7}

\* the bearer tokens the cookie service issues
IssuedTokens == {"jwt-1", "jwt-2"}

\* variant: the expiry is the time of the login itself
ExpiryNow(t) == t

\* self._jwt_expires = time.time() + 35000
Expiry(t) == t + JwtWindow

AuthInit ==
    /\ ChatIdle
    /\ PairIdle
    /\ OpsIdle
    /\ CliIdle
    /\ CredsIdle
    /\ ExtractIdle
    /\ AgentsIdle
    /\ AuthIdle

\* login(email, password) is called
CallLogin ==
    /\ authpc \in {"idle", "done", "raised"}
    /\ logins < MaxLogins
    /\ logins' = logins + 1
    /\ authPrev' = <<auth_jwt, auth_expires>>
    /\ authReqs' = <<>>
    /\ authOk' = TRUE
    /\ authFault' = "none"
    /\ authpc' = "login"
    /\ UNCHANGED <<auth_jwt, auth_expires, aclock, notAuth>>

\* the POST to /auth/login, raise_for_status, the cookies of the response
PostLogin ==
    /\ authpc = "login"
    /\ authReqs' = Append(authReqs, "login")
    /\ \E d \in AuthReqTimes : aclock' = aclock + d
    /\ \/ /\ authpc' = "cookie"
          /\ UNCHANGED <<authFault, authOk>>
       \/ \* raise_for_status() raises, or the body is no JSON
          /\ authpc' = "raised"
          /\ authFault' = "HTTPError"
          /\ authOk' = FALSE
    /\ UNCHANGED <<auth_jwt, auth_expires, authPrev, logins, notAuth>>

\* _refresh_jwt_from_cookies: the GET with the cookies, raise_for_status, the token
\* of the body and its expiry
GetJwtFromCookie ==
    /\ authpc = "cookie"
    /\ authReqs' = Append(authReqs, "get_jwt_from_cookie")
    /\ \E d \in AuthReqTimes :
         /\ aclock' = aclock + d
         /\ \/ \E token \in IssuedTokens :
                 /\ auth_jwt' = token
                 /\ auth_expires' = Expiry(aclock + d)
                 /\ authpc' = "done"
                 /\ UNCHANGED <<authFault, authOk>>
            \/ \* raise_for_status() raises
               /\ authpc' = "raised"
               /\ authFault' = "HTTPError"
               /\ authOk' = FALSE
               /\ UNCHANGED <<auth_jwt, auth_expires>>
            \/ \* the body holds no "bearer_token"
               /\ authpc' = "raised"
               /\ authFault' = "KeyError"
               /\ authOk' = FALSE
               /\ UNCHANGED <<auth_jwt, auth_expires>>
    /\ UNCHANGED <<authPrev, logins, notAuth>>

AuthNext ==
    \/ CallLogin
    \/ PostLogin
    \/ GetJwtFromCookie

SpecAuth == AuthInit /\ [][AuthNext]_vars

(* --------------------------- get_credentials --------------------------- *)

\* what the command line, the environment and the env file may hold
ArgSets ==
    [org_id : {Absent, "", "arg-org"}, api_token : {Absent, "", "arg-tok"},
     jwt : {Absent, "", "arg-jwt"}]
EnvSets ==
    [ED_ORG_ID : {Absent, "", "env-org"}, ED_API_TOKEN : {Absent, "", "env-tok"},
     ED_JWT : {Absent, "", "env-jwt"}, ED_EMAIL : {Absent, "env-email"},
     ED_PASSWORD : {Absent, "env-pw"}]
FileSets ==
    [ED_ORG_ID : {Absent, "", "file-org"}, EDGEDELTA_ORG_ID : {Absent, "file-org2"},
     ED_API_TOKEN : {Absent, "file-tok"}, ED_ORG_API_TOKEN : {Absent, "file-tok2"},
     ED_JWT : {Absent, "file-jwt"}, ED_EMAIL : {"file-email"}, ED_PASSWORD : {"file-pw"}]

\* env.get(key) or env.get(alias, "") on the keys of the env file
FileFirstOf(v, alias) == IF v \notin {Absent, ""} THEN v ELSE DictGet(alias, "")

\* variant: an empty environment variable counts as not set
EnvOverrideNonEmpty(v, below) == IF v \notin {Absent, ""} THEN v ELSE below

\* os.environ.get(KEY, creds.get(key, ""))
EnvOverride(v, below) == IF v /= Absent THEN v ELSE below

\* if hasattr(args, key) and args.key: creds[key] = args.key
ArgOverride(v, below) == IF v \notin {Absent, ""} THEN v ELSE below

\* the dict get_credentials returns
Resolve(args, env, file) ==
    [org_id |-> ArgOverride(args.org_id,
                   EnvOverride(env.ED_ORG_ID,
                       FileFirstOf(file.ED_ORG_ID, file.EDGEDELTA_ORG_ID))),
     api_token |-> ArgOverride(args.api_token,
                       EnvOverride(env.ED_API_TOKEN,
                           FileFirstOf(file.ED_API_TOKEN, file.ED_ORG_API_TOKEN))),
     jwt |-> ArgOverride(args.jwt, EnvOverride(env.ED_JWT, DictGet(file.ED_JWT, ""))),
     email |-> EnvOverride(env.ED_EMAIL, DictGet(file.ED_EMAIL, "")),
     password |-> EnvOverride(env.ED_PASSWORD, DictGet(file.ED_PASSWORD, ""))]

CredsInit ==
    /\ ChatIdle
    /\ PairIdle
    /\ OpsIdle
    /\ CliIdle
    /\ ExtractIdle
    /\ AuthIdle
    /\ AgentsIdle
    /\ credArgs \in ArgSets
    /\ credEnv \in EnvSets
    /\ credFile \in FileSets
    /\ resolved = <<>>

\* get_credentials(args)
GetCredentials ==
    /\ resolved = <<>>
    /\ resolved' = Resolve(credArgs, credEnv, credFile)
    /\ UNCHANGED <<credArgs, credEnv, credFile, notCreds>>

CredsNext == GetCredentials

SpecCreds == CredsInit /\ [][CredsNext]_vars

(* ------------------------------ properties ---------------------------- *)

\* send_message_and_wait has returned a result (chat may still have to extract)
Returned == pc \in {"extract", "done"}

\* C1: a poll that is answered ends the loop exactly when its snapshot has state
\* "resolved"/"done" or messageCount >= 2: the engine goes back to the loop test only
\* after a snapshot where neither holds, and once a poll met the condition no further
\* sleep and no further thread fetch is made (a first poll with messageCount >= 2 is
\* therefore the only poll).
C1_ReturnAtFirstTerminalPoll ==
    [][ /\ (pc = "poll" /\ pc' \notin {"poll", "raised"}) =>
             /\ (pc' = "loop") <=> ~MetTerminal(thread_data')
             /\ MetTerminal(thread_data') => pc' \in {"list", "extract", "done"}
        /\ (pc \in {"list", "extract", "done"}) =>
             /\ fetches' = fetches
             /\ sleeps' = sleeps
             /\ polls' = polls
             /\ pc' \in {"list", "extract", "done", "raised"} ]_vars

\* witness of C1: the first poll reported messageCount >= 2 with a state that is no
\* completion token, and the call returned after that one poll, before the timeout
C1_Witness ==
    /\ pc = "done"
    /\ via = "loop"
    /\ polls = 1 /\ fetches = 1 /\ sleeps = 1
    /\ thread_data.state = "investigating"
    /\ thread_data.messageCount >= 2
    /\ now - start < timeout

\* C2 as stated: when no fetched snapshot ever met the terminal condition, the
\* returned result carries state "timeout".
C2_Original_StateIsTimeout ==
    (Returned /\ ~sawTerminal) => result.state = "timeout"

\* C2 amended: when no fetched snapshot ever met the terminal condition, the result
\* comes from the timeout path and carries the final snapshot's state when that
\* snapshot has one (never a completion token), and "timeout" when it has none.
C2_StateOfNeverTerminal ==
    (Returned /\ ~sawTerminal) =>
        /\ via = "timeout"
        /\ result.state \notin {"resolved", "done"}
        /\ (result.thread.state /= Absent => result.state = result.thread.state)
        /\ (result.thread.state = Absent => result.state = "timeout")

\* witness of C2: a call that polled, never saw a terminal snapshot and returned the
\* state "investigating"
C2_Witness ==
    /\ Returned /\ ~sawTerminal
    /\ polls >= 2
    /\ result.state = "investigating"

\* C3 as stated: on the timeout path the returned messages are the messages the
\* thread held at the final fetch, so they are not empty when the thread holds a
\* message (the service does not move between the final fetch and the return).
C3_TimeoutReturnsAllMessages ==
    (Returned /\ via = "timeout") =>
        /\ result.messages = srvMsgs
        /\ (Len(srvMsgs) >= 1 => result.messages /= <<>>)

\* C4: on the timeout path the returned state is the state of the final snapshot when
\* the snapshot carries one, and the literal "timeout" when it carries none.
C4_TimeoutStateIsLastObserved ==
    (Returned /\ via = "timeout") =>
        /\ result.thread = thread_data
        /\ thread_data.seq = fetches
        /\ result.state = (IF thread_data.state = Absent THEN "timeout" ELSE thread_data.state)

\* witness of C4: the final fetch after at least one poll found the thread still
\* "investigating", and that is the state returned
C4_Witness ==
    /\ Returned /\ via = "timeout"
    /\ polls >= 1
    /\ thread_data.state = "investigating"
    /\ result.state = "investigating"

\* ceil(a / b) for b > 0
CeilDiv(a, b) == -((-a) \div b)

Max0(n) == IF n < 0 THEN 0 ELSE n

\* C5 as stated: with zero-duration requests, when the loop gives up the number of
\* in-loop polls is ceil(timeout / poll_interval), each poll came after one sleep of
\* poll_interval (poll k is made at t = k * poll_interval), and with timeout = 10,
\* poll_interval = 5 there were exactly two polls, the last at t = 10.
C5_Original_PollsAreCeil ==
    /\ (pc = "final" /\ reqDur = 0) =>
          /\ polls = CeilDiv(timeout, poll_interval)
          /\ sleeps = polls
    /\ (pc = "poll" /\ reqDur = 0) =>
          /\ sleeps = polls + 1
          /\ now - start = sleeps * poll_interval
    /\ (pc = "final" /\ reqDur = 0 /\ timeout = 10 /\ poll_interval = 5) =>
          /\ polls = 2
          /\ now - start = 10

\* C5 amended: as C5, with the number of in-loop polls max(0, ceil(timeout /
\* poll_interval)): a negative timeout gives no poll, not a negative count.
C5_PollsAreCeilOrZero ==
    /\ (pc = "final" /\ reqDur = 0) =>
          /\ polls = Max0(CeilDiv(timeout, poll_interval))
          /\ sleeps = polls
    /\ (pc = "poll" /\ reqDur = 0) =>
          /\ sleeps = polls + 1
          /\ now - start = sleeps * poll_interval
    /\ (pc = "final" /\ reqDur = 0 /\ timeout = 10 /\ poll_interval = 5) =>
          /\ polls = 2
          /\ now - start = 10

\* witness of C5: timeout = 10, poll_interval = 5, the service stayed at
\* messageCount = 1 and the loop gave up after its second poll
C5_Witness ==
    /\ pc = "final" /\ reqDur = 0
    /\ timeout = 10 /\ poll_interval = 5
    /\ thread_data.messageCount = 1
    /\ ~sawTerminal
    /\ polls = 2

\* C6: for timeout >= poll_interval > 0 the call ends (returns or raises) less than
\* timeout + poll_interval after start, plus the time of the requests made since the
\* last sleep began, which are at most two (with zero-duration requests: strictly
\* below timeout + poll_interval).
C6_ReturnsWithinTimeoutPlusInterval ==
    (pc \in {"extract", "done", "raised"} /\ poll_interval > 0 /\ timeout >= poll_interval) =>
        /\ now - start < timeout + poll_interval + reqSince
        /\ reqSince <= 2 * reqDur

\* witness of C6: a call with timeout >= poll_interval whose last sleep ended after
\* the timeout had elapsed
C6_Witness ==
    /\ Returned /\ via = "timeout"
    /\ timeout >= poll_interval
    /\ reqDur = 0
    /\ now - start > timeout

\* C7: in the ping/pong scenario (chat sends "ping"; the first three polls are
\* answered state "investigating", messageCount 1, the fourth state "done",
\* messageCount 2 with the agent reply "pong" inline) chat stops at the fourth poll,
\* having made four thread fetches and no listing call, and returns exactly "pong".
C7_PingPongScenario ==
    (op = "chat" /\ message = "ping" /\ script = 4) =>
        /\ Returned
        /\ polls = 4 /\ fetches = 4 /\ listings = 0
        /\ (pc = "done" => reply = "pong")

\* witness of C7: the scenario ran to its end and chat returned
C7_Witness ==
    /\ op = "chat" /\ message = "ping" /\ script = 4
    /\ pc = "done"
    /\ result.messages = <<UserMsg("ping"), PongMsg>>
    /\ reply = "pong"

IsTextPart(part) == part.type = "text"

\* an agent-authored message with at least one text part
AgentWithText(m) == m.role = "agent" /\ \E i \in 1..Len(m.parts) : IsTextPart(m.parts[i])

\* the texts of the text parts of m, in part order
TextsOf(m) ==
    LET tp == SelectSeq(m.parts, IsTextPart)
    IN  [i \in 1..Len(tp) |-> IF tp[i].text = Absent THEN "" ELSE tp[i].text]

\* ts[1], newline, ts[2], newline, ... ts[n]
NewlineSeparated(ts) ==
    LET f[k \in 0..Len(ts)] ==
            IF k = 0 THEN "" ELSE IF k = 1 THEN ts[1] ELSE f[k - 1] \o "\n" \o ts[k]
    IN  f[Len(ts)]

\* C8: the string chat returns is, for the first message of the result that is
\* agent-authored and has a text part, the texts of its text parts in part order
\* separated by newlines; other parts add nothing and agent messages without a text
\* part before it are passed over.
C8_FirstAgentTextReply ==
    (op = "chat" /\ pc = "done") =>
        \A i \in 1..Len(result.messages) :
            (/\ AgentWithText(result.messages[i])
             /\ \A j \in 1..(i - 1) : ~AgentWithText(result.messages[j]))
            => reply = NewlineSeparated(TextsOf(result.messages[i]))

\* witness of C8: the caller's message and a tool-only agent message precede an agent
\* message with text parts around a tool result
C8_Witness ==
    /\ op = "chat" /\ pc = "done"
    /\ result.messages = <<UserMsg("ping"), ToolOnlyMsg, MixedMsg>>
    /\ reply = "a\n\nb"

\* C9: chat returns "[No response yet - state: <S>]", S the state of the result
\* ("unknown" if it has none), exactly when no message of the result is
\* agent-authored with a text part.
C9_SentinelIffNoAgentText ==
    (op = "chat" /\ pc = "done") =>
        ((\A i \in 1..Len(result.messages) : ~AgentWithText(result.messages[i]))
         <=> reply = "[No response yet - state: "
                      \o (IF result.state = Absent THEN "unknown" ELSE result.state)
                      \o "]")

\* witness of C9: the result holds the caller's message and a tool-only agent message,
\* and chat returned the sentinel with the state of the round trip
C9_Witness ==
    /\ op = "chat" /\ pc = "done"
    /\ result.messages = <<UserMsg("ping"), ToolOnlyMsg>>
    /\ reply = "[No response yet - state: investigating]"

\* C10: once a transport request has failed the call has raised: it holds no result
\* and no reply, and no request or sleep follows; a failed creation leaves the call
\* with no sleep, no thread fetch and no listing made.
C10_FaultAbortsRoundTrip ==
    /\ [](failed =>
            /\ pc = "raised" /\ fault = "HTTPError"
            /\ result = NoResult /\ via = "none" /\ reply = NoReply
            /\ (~srvExists => sleeps = 0 /\ fetches = 0 /\ listings = 0 /\ creates = 1))
    /\ [][failed => UNCHANGED <<pc, creates, fetches, listings, sleeps>>]_vars

\* witness of C10: the second poll of a wait failed and the call raised
C10_Witness ==
    /\ failed /\ pc = "raised"
    /\ polls = 2 /\ sleeps = 2 /\ fetches = 2
    /\ result = NoResult

\* the creation response holds the id and the state that section 6 says it includes
WellFormedCreation == thread.id /= Absent /\ thread.state /= Absent

\* C11 as stated: the call raises only when a transport request failed.
C11_Original_NeverRaisesOnSuccess ==
    (fault /= "none" \/ pc = "raised") => failed

\* C11: when no transport request failed and the creation response was well formed,
\* the call never raises, whatever state and messageCount (present or absent) the
\* thread fetches report: a returned result has its three fields set, its thread is
\* the last snapshot, and a reply that has not arrived shows as a result of the
\* timeout path whose state is not a fault.
C11_NoFaultWithoutTransportFailure ==
    /\ (fault /= "none" \/ pc = "raised") => (failed \/ ~WellFormedCreation)
    /\ Returned =>
          /\ fault = "none"
          /\ DOMAIN result = {"thread", "messages", "state"}
          /\ result /= NoResult
          /\ result.state /= Absent
          /\ result.thread = thread_data
          /\ (~MetTerminal(result.thread) => via = "timeout")

\* witness of C11: every fetch answered with an object that holds neither state nor
\* messageCount, and the call returned the state "timeout" after polling
C11_Witness ==
    /\ Returned /\ ~failed
    /\ polls >= 2
    /\ result.thread.state = Absent /\ result.thread.messageCount = NoCount
    /\ result.state = "timeout"

\* C12: the listing call is made at most once, and exactly when a poll met the
\* terminal condition with an empty inline message list; a non-empty inline list is
\* returned as it is with no listing call, and the timeout path makes none.
C12_ListingOnlyAsFallback ==
    /\ listings <= 1
    /\ (pc = "list" \/ listings = 1) =>
          /\ MetTerminal(thread_data) /\ thread_data.messages = <<>>
          /\ polls >= 1 /\ via /= "timeout"
    /\ (pc = "list") => listings = 0
    /\ (Returned /\ via = "loop") =>
          /\ (thread_data.messages = <<>>) <=> (listings = 1)
          /\ (thread_data.messages /= <<>> => result.messages = thread_data.messages)
    /\ (Returned /\ via = "timeout") => listings = 0

\* witness of C12: a terminal poll inlined no messages and the listing call supplied
\* the messages of the result
C12_Witness ==
    /\ Returned /\ via = "loop"
    /\ listings = 1
    /\ thread_data.messages = <<>>
    /\ Len(result.messages) >= 2

\* C13: one creation request per round trip, made before any thread fetch or
\* listing, on the given channel ("dm-" and the agent id for chat) with the message
\* as title and a token made by the client; no step of the client after it changes
\* the remote thread.
C13_OneCreationThenReads ==
    /\ [](/\ creates <= 1
          /\ (fetches + listings > 0 => creates = 1)
          /\ (srvExists =>
                /\ creates = 1
                /\ posted.channel = (IF op = "chat" THEN "dm-" \o chat_agent ELSE channel_id)
                /\ posted.title = message
                /\ posted.clientTempId /= Absent))
    /\ [][ /\ (creates' /= creates => creates = 0 /\ fetches = 0 /\ listings = 0)
           /\ ((srvExists /\ pc' /= pc) => UNCHANGED srvVars) ]_vars

\* witness of C13: a chat call that created its thread on "dm-sre" and went on to
\* fetch it more than once
C13_Witness ==
    /\ op = "chat" /\ pc = "done"
    /\ posted = [channel |-> "dm-sre", title |-> "ping", clientTempId |-> "thread:r1"]
    /\ creates = 1 /\ fetches >= 2

\* the result of a round trip on destination d run alone against the thread's
\* scripted answers: t is the time since start, n the fetches answered so far
RECURSIVE RunAlone(_, _, _, _)
RunAlone(d, tmo, t, n) ==
    LET td == PairAnswerAt(d, n + 1)
    IN  IF t < tmo
          THEN IF MetTerminal(td)
                 THEN [thread |-> td,
                       messages |-> IF td.messages = <<>> THEN PairMsgs(d) ELSE td.messages,
                       state |-> td.state]
                 ELSE RunAlone(d, tmo, t + DefaultPollInterval, n + 1)
          ELSE [thread |-> td, messages |-> td.messages, state |-> td.state]

\* C14: two round trips on different destinations, interleaved in every way: each
\* returns what it returns alone against the same answers of its thread, and a step
\* of one changes neither the locals, the result nor the remote thread of the other.
C14_ConcurrentTripsIndependent ==
    /\ [](\A i \in Trips :
            tpc[i] = "done" => presult[i] = RunAlone(Dest(i), ptimeout[i], 0, 0))
    /\ [][\A i \in Trips :
            tpc'[i] = tpc[i] =>
              /\ frame'[i] = frame[i]
              /\ presult'[i] = presult[i]
              /\ served'[Dest(i)] = served[Dest(i)]]_vars

\* witness of C14: the two round trips overlapped, one returned from the loop after a
\* listing-free terminal poll and the other on the timeout path
C14_Witness ==
    /\ overlap
    /\ tpc[1] = "done" /\ tpc[2] = "done"
    /\ presult[1].state = "resolved" /\ presult[1].messages = PairMsgs("dm-sre")
    /\ presult[2].state = "investigating"
    /\ served["dm-security"] = 3

\* C15: an error raised by a client operation reaches the immediate caller as the
\* same error: a tool_handler call whose client operation raised ends by raising.
C15_ClientFaultsPropagate ==
    (lastCall.via = "tool" /\ lastCall.outcome.kind = "raised") =>
        (toolReturn.kind = "raised" /\ toolReturn.value = lastCall.outcome.value)

\* C16: an operation that got a response with a status outside 200..299 ends by
\* raising, delete_agent, delete_integration and mark_thread_read as the others.
C16_NonOkStatusIsFault ==
    (lastCall.op /= "none" /\ ~(lastCall.status \in 200..299)) =>
        lastCall.outcome.kind = "raised"

\* C17: without an organization identifier or without a bearer credential the
\* process exits before any network call: no request of a command carries the
\* bearer header of an empty JWT, and no client is built with one.
C17_NoRequestWithEmptyJwt ==
    /\ cliRequest.sent.Authorization /= "Bearer "
    /\ cliClient.jwt /= ""
    /\ ((creds.org_id = "" /\ cpc /= "start") => cliNet = 0)

\* C18: after any sequence of operations the client's org_id, jwt and headers are
\* those of its construction, and a request that carries a bearer credential carries
\* the one given to the constructor.
C18_CredentialReadOnly ==
    /\ org_id = ctor.org_id
    /\ jwt = ctor.jwt
    /\ headers = BearerHeaders(ctor.jwt)
    /\ (lastCall.sent.Authorization /= Absent =>
          lastCall.sent.Authorization = "Bearer " \o ctor.jwt)

\* witness of C18: the last of several operations, one of which sent an API token of
\* its own, sent the bearer credential of the constructor
C18_Witness ==
    /\ ncalls = MaxCalls
    /\ usedToken
    /\ lastCall.op = "delete_agent"
    /\ lastCall.sent.Authorization = "Bearer jwt-b"

\* the keyword argument that names API key k
KwKeyOf(k) ==
    CASE k = "masterPrompt" -> "system_prompt"
      [] k = "modelTemperature" -> "temperature"
      [] OTHER -> k

\* two values of key k agree when they are equal, or, for role and avatar, when
\* both are unset (missing or empty)
SameValue(k, v, w) ==
    \/ v = w
    \/ k \in {"role", "avatar"} /\ v \in {Missing(k), ""} /\ w \in {Missing(k), ""}

\* C19 as stated: the PUT payload holds, for a field not named in kwargs, the value
\* of the agent as fetched, and for a named one the given value.
C19_Original_UnnamedFieldsAsFetched ==
    \A c \in Callers :
        sentWrite[c].method = "PUT" =>
            \A k \in ApiKeys :
                SameValue(k, sentWrite[c].payload[k],
                          IF Given(KwKeyOf(k), acall[c].kwargs)
                            THEN acall[c].kwargs[KwKeyOf(k)]
                            ELSE current[c][k])

\* C19: the PUT payload holds, for a field named in kwargs, the given value
\* (system_prompt as masterPrompt, temperature as modelTemperature); for another
\* field the value of the agent as fetched when the fetched agent has the key, and
\* otherwise the default of the code: "active" for status, 0.1 for modelTemperature,
\* 10 for priority, [] for the lists, "" for the other texts, and no role or avatar.
C19_UnnamedFieldsAsFetchedOrDefault ==
    \A c \in Callers :
        sentWrite[c].method = "PUT" =>
            /\ sentWrite[c].agent_id = acall[c].agent_id
            /\ \A k \in ApiKeys :
                 LET sent == sentWrite[c].payload[k]
                     kw == acall[c].kwargs
                 IN  IF Given(KwKeyOf(k), kw) THEN sent = kw[KwKeyOf(k)]
                     ELSE IF current[c][k] /= Missing(k)
                       THEN SameValue(k, sent, current[c][k])
                     ELSE CASE k = "status" -> sent = "active"
                            [] k = "modelTemperature" -> sent = 1
                            [] k = "priority" -> sent = 10
                            [] k \in ListKeys -> sent = <<>>
                            [] k \in {"role", "avatar"} -> sent = Missing(k)
                            [] OTHER -> sent = ""

\* witness of C19: an update that names system_prompt, sent for an agent fetched
\* without status, model or lists
C19_Witness ==
    \E c \in Callers :
        /\ apc[c] = "done"
        /\ sentWrite[c].method = "PUT"
        /\ current[c] = SparseAgent
        /\ acall[c].kwargs["system_prompt"] = "p2"
        /\ sentWrite[c].payload["masterPrompt"] = "p2"
        /\ sentWrite[c].payload["status"] = "active"

\* C20: the create request of a clone holds name = new_name and, for each of
\* description, system prompt, model, role, capabilities, connectors, temperature
\* and priority, the override when one is given and otherwise the value of the
\* source agent (checked where the source has the key).
C20_CloneCopiesSource ==
    \A c \in Callers :
        sentWrite[c].method = "POST" =>
            /\ sentWrite[c].payload["name"] = acall[c].new_name
            /\ \A k \in {"description", "masterPrompt", "model", "role", "capabilities",
                          "connectors", "modelTemperature", "priority"} :
                 IF Given(KwKeyOf(k), acall[c].kwargs)
                   THEN SameValue(k, sentWrite[c].payload[k], acall[c].kwargs[KwKeyOf(k)])
                   ELSE current[c][k] /= Missing(k) =>
                          SameValue(k, sentWrite[c].payload[k], current[c][k])

\* C25: in a returned result the state is the snapshot's state when the snapshot has
\* one, else "unknown" on the in-loop return and "timeout" on the timeout return; the
\* thread is the last snapshot fetched, never the creation response.
C25_StateAgreesWithSnapshot ==
    Returned =>
        /\ result.thread = thread_data
        /\ result.thread.seq = fetches
        /\ fetches >= 1
        /\ DOMAIN result.thread /= DOMAIN thread
        /\ IF result.thread.state /= Absent
             THEN result.state = result.thread.state
             ELSE /\ (via = "loop" => result.state = "unknown")
                  /\ (via = "timeout" => result.state = "timeout")
        /\ via \in {"loop", "timeout"}

\* witness of C25: the in-loop return on a snapshot without a state
C25_Witness ==
    /\ Returned /\ via = "loop"
    /\ result.thread.state = Absent
    /\ result.state = "unknown"
    /\ fetches >= 2

\* C26: a result returned from inside the loop meets the terminal condition on its
\* own snapshot (state resolved or done, or messageCount >= 2); the timeout path is
\* under no such constraint either way.
C26_LoopResultIsTerminal ==
    (Returned /\ via = "loop") =>
        \/ result.thread.state \in {"resolved", "done"}
        \/ result.thread.messageCount >= 2

\* witness of C26: a result of the timeout path whose snapshot meets the terminal
\* condition, equal field by field to a result the loop returns at its first poll
C26_Witness ==
    /\ Returned /\ via = "timeout"
    /\ result = [thread |-> [state |-> "resolved", messageCount |-> 2,
                             messages |-> <<UserMsg("ping"), PongMsg>>, seq |-> 1],
                 messages |-> <<UserMsg("ping"), PongMsg>>,
                 state |-> "resolved"]

\* C27: with timeout <= 0 the call creates the thread, makes no sleep, no in-loop
\* poll and no listing call, fetches the thread once and returns the result of the
\* timeout path.
C27_NonPositiveTimeout ==
    (op /= "none" /\ timeout <= 0) =>
        /\ sleeps = 0 /\ polls = 0 /\ listings = 0
        /\ fetches <= 1
        /\ pc \notin {"sleep", "poll", "list"}
        /\ (pc = "final" => creates = 1 /\ fetches = 0)
        /\ Returned =>
              /\ creates = 1 /\ fetches = 1
              /\ via = "timeout"
              /\ result.thread = thread_data
              /\ result.messages = thread_data.messages

\* witness of C27: a call with timeout 0 returned after one creation and one fetch
C27_Witness ==
    /\ Returned /\ timeout = 0
    /\ creates = 1 /\ fetches = 1 /\ sleeps = 0
    /\ via = "timeout"

\* C24: when every transport call returns, a call of send_message_and_wait ends
\* (returns or raises), after at most max(0, ceil(timeout / poll_interval)) polls of
\* the loop and at most one thread fetch after the loop.
C24_Terminates ==
    /\ (pc = "create") ~> (pc \in {"done", "raised"})
    /\ [](/\ polls <= Max0(CeilDiv(timeout, IF poll_interval > 0 THEN poll_interval ELSE 1))
          /\ sleeps <= polls + 1
          /\ fetches <= polls + 1)

\* witness of C24: a call that polled as often as its timeout allows, made the final
\* fetch and ended
C24_Witness ==
    /\ pc = "done"
    /\ timeout = 20 /\ poll_interval = 5
    /\ polls = 4 /\ fetches = 5
    /\ via = "timeout"

C21_LoginStoresOnSuccessOnly ==
    /\ [](/\ authReqs \in {<<>>, <<"login">>, <<"login", "get_jwt_from_cookie">>}
          /\ (authpc = "cookie" => authReqs = <<"login">> /\ authOk)
          /\ (authpc = "done" =>
                /\ Len(authReqs) = 2 /\ authOk /\ authFault = "none"
                /\ auth_jwt \in IssuedTokens
                /\ auth_expires = aclock + 35000)
          /\ (authpc = "raised" =>
                /\ ~authOk /\ authFault /= "none"
                /\ <<auth_jwt, auth_expires>> = authPrev)
          /\ (authpc \in {"login", "cookie"} => <<auth_jwt, auth_expires>> = authPrev))
    /\ [][authpc' /= "done" => UNCHANGED <<auth_jwt, auth_expires>>]_vars

\* witness of C21: a second login whose cookie exchange failed, the token and the
\* expiry of the first login still stored
C21_Witness ==
    /\ logins = 2 /\ authpc = "raised"
    /\ authReqs = <<"login", "get_jwt_from_cookie">>
    /\ auth_jwt = "jwt-1"
    /\ auth_expires = 35007
    /\ aclock > 7

\* the value the env file gives for a credential: the key, else its alias, else ""
FileValueOf(key) ==
    CASE key = "org_id" ->
           IF credFile.ED_ORG_ID \notin {Absent, ""} THEN credFile.ED_ORG_ID
           ELSE IF credFile.EDGEDELTA_ORG_ID /= Absent THEN credFile.EDGEDELTA_ORG_ID
           ELSE ""
      [] key = "api_token" ->
           IF credFile.ED_API_TOKEN /= Absent THEN credFile.ED_API_TOKEN
           ELSE IF credFile.ED_ORG_API_TOKEN /= Absent THEN credFile.ED_ORG_API_TOKEN
           ELSE ""
      [] OTHER -> IF credFile.ED_JWT /= Absent THEN credFile.ED_JWT ELSE ""

\* the environment variable of a credential
EnvValueOf(key) ==
    CASE key = "org_id" -> credEnv.ED_ORG_ID
      [] key = "api_token" -> credEnv.ED_API_TOKEN
      [] OTHER -> credEnv.ED_JWT

\* C22 as stated: each of org_id, api_token, jwt is the argument when one is given,
\* else the environment variable when it is set, else the value of the env file.
C22_Original_ArgsEnvFile ==
    resolved /= <<>> =>
        \A key \in {"org_id", "api_token", "jwt"} :
            resolved[key] =
                IF credArgs[key] /= Absent THEN credArgs[key]
                ELSE IF EnvValueOf(key) /= Absent THEN EnvValueOf(key)
                ELSE FileValueOf(key)

\* C22: each of org_id, api_token, jwt is the argument when a non-empty one is
\* given, else the environment variable when it is set (to the empty string too),
\* else the value of the env file.
C22_NonEmptyArgsEnvFile ==
    resolved /= <<>> =>
        \A key \in {"org_id", "api_token", "jwt"} :
            resolved[key] =
                IF credArgs[key] /= Absent /\ credArgs[key] /= "" THEN credArgs[key]
                ELSE IF EnvValueOf(key) /= Absent THEN EnvValueOf(key)
                ELSE FileValueOf(key)

\* witness of C22: the three credentials resolved from three different layers, the
\* environment's empty ED_JWT hiding the file's
C22_Witness ==
    /\ resolved /= <<>>
    /\ credArgs = [org_id |-> "arg-org", api_token |-> Absent, jwt |-> Absent]
    /\ credEnv.ED_ORG_ID = "env-org" /\ credEnv.ED_API_TOKEN = Absent /\ credEnv.ED_JWT = ""
    /\ credFile.ED_API_TOKEN = "file-tok" /\ credFile.ED_JWT = "file-jwt"
    /\ resolved.org_id = "arg-org" /\ resolved.api_token = "file-tok" /\ resolved.jwt = ""

\* the API key of a keyword argument, as update_agent's field_map gives it
ApiKeyOf(key) ==
    IF key = "system_prompt" THEN "masterPrompt"
    ELSE IF key = "temperature" THEN "modelTemperature" ELSE key

\* the API keys a caller's update_agent call names
Named(c) == {ApiKeyOf(key) : key \in {q \in KwKeys : acall[c].kwargs[q] /= NotGiven(q)}}

\* both callers' update_agent calls on agent a1 returned, naming different fields
BothUpdated ==
    /\ \A c \in Callers :
          apc[c] = "done" /\ acall[c].op = "update" /\ acall[c].agent_id = "a1"
          /\ Named(c) /= {}
    /\ Named(1) \cap Named(2) = {}

\* C28: two update_agent calls on one agent that name different fields: when one
\* call returned before the other's list GET, the agent holds both changes; when
\* both GETs preceded both PUTs, the agent holds one call's full payload, so each
\* field named by the other call (role and avatar aside, which a payload may
\* leave out) holds the value fetched before either PUT.
C28_LostUpdateOnlyWhenInterleaved ==
    BothUpdated =>
        /\ (seenDone[1] = {2} \/ seenDone[2] = {1}) =>
              \A c \in Callers : \A key \in KwKeys :
                  acall[c].kwargs[key] /= NotGiven(key) =>
                      db["a1"][ApiKeyOf(key)] = acall[c].kwargs[key]
        /\ (seenDone[1] = {} /\ seenDone[2] = {}) =>
              \E last \in Callers : \A first \in Callers \ {last} :
                  /\ \A key \in KwKeys :
                        acall[last].kwargs[key] /= NotGiven(key) =>
                            db["a1"][ApiKeyOf(key)] = acall[last].kwargs[key]
                  /\ \A k \in Named(first) \ {"role", "avatar"} :
                        db["a1"][k] =
                            IF current[last][k] = Missing(k) THEN UpdateDefault(k)
                            ELSE current[last][k]

\* witness of C28: both GETs preceded both PUTs; caller 1 changed the description,
\* caller 2 the prompt; the agent has the new prompt and the old description again
C28_Witness ==
    /\ BothUpdated
    /\ seenDone[1] = {} /\ seenDone[2] = {}
    /\ Named(1) = {"description"} /\ Named(2) = {"masterPrompt"}
    /\ db["a1"].masterPrompt = "p2"
    /\ db["a1"].description = "d1"
    /\ sentWrite[1].payload.description = "d2"

\* C29: update_agent, clone_agent and get_agent_tools with an id the listing lacks
\* end with ValueError (or with the list GET's own fault) and send no PUT and no
\* POST; ValueError is raised for such ids only.
C29_UnknownIdNoWrite ==
    \A c \in Callers :
        /\ (apc[c] \notin {"idle", "get"} /\ acall[c].agent_id \notin dbIds) =>
              /\ apc[c] = "raised"
              /\ afault[c] \in {"ValueError", "HTTPError"}
              /\ sentWrite[c] = NoWrite
        /\ afault[c] = "ValueError" =>
              /\ acall[c].agent_id \notin dbIds
              /\ sentWrite[c] = NoWrite
              /\ current[c] = NoAgent

\* witness of C29: get_agent_tools and update_agent both raised ValueError, nothing
\* was sent and the agent set is the one of the start
C29_Witness ==
    /\ acall[1].op = "tools" /\ acall[2].op = "update"
    /\ afault[1] = "ValueError" /\ afault[2] = "ValueError"
    /\ sentWrite[1] = NoWrite /\ sentWrite[2] = NoWrite
    /\ dbIds = {"a1"}

\* C30: tool_handler returns a dict with the one key "result" or "error" and never
\* raises; a name that is not declared gives "Unknown tool: <name>" and no client
\* operation is invoked; a missing required argument gives "error"; a fault of the
\* client operation gives "error"; every declared tool has a handler.
C30_ToolHandlerTotal ==
    /\ DeclaredTools \subseteq HandlerNames
    /\ toolReturn /= NoToolReturn =>
          /\ toolReturn.kind = "returned"
          /\ toolReturn.key \in {"result", "error"}
          /\ toolReturn.tool_name \notin DeclaredTools =>
                /\ toolReturn.key = "error"
                /\ toolReturn.value = "Unknown tool: " \o toolReturn.tool_name
                /\ toolReturn.invoked = "none"
          /\ toolReturn.tool_name \in DeclaredTools =>
                toolReturn.value /= "Unknown tool: " \o toolReturn.tool_name
          /\ (toolReturn.tool_name \in DeclaredTools
                /\ ~(Required(toolReturn.tool_name) \subseteq toolReturn.args)) =>
                toolReturn.key = "error"
          /\ (toolReturn.invoked /= "none" /\ lastCall.outcome.kind = "raised") =>
                toolReturn.key = "error"
          /\ toolReturn.key = "result" =>
                /\ toolReturn.invoked = lastCall.op
                /\ lastCall.via = "tool"
                /\ lastCall.outcome.kind = "returned"

\* witness of C30: clone_agent called through the handler without new_name after a
\* tool call that invoked the client: "error", and the client was not called again
C30_Witness ==
    /\ toolReturn.tool_name = "ai_team_clone_agent"
    /\ toolReturn.args = {"agent_id"}
    /\ toolReturn.key = "error"
    /\ toolReturn.invoked = "none"
    /\ lastCall.via = "tool" /\ lastCall.op = "get_agent"
    /\ lastCall.outcome = [kind |-> "raised", value |-> "ValueError"]

TypeOK ==
    /\ pc \in {"idle", "create", "loop", "sleep", "poll", "list", "final", "extract",
               "done", "raised"}
    /\ fault \in {"none", "HTTPError", "KeyError"}
    /\ Len(srvMsgs) <= MaxMsgs

====
